---------------------------- MODULE Spec2Model ----------------------------
(***************************************************************************)
(* Model of lfnetworking/governance-automation:                            *)
(*   - classify-config/index.js: metric collection and phase selection     *)
(*   - the "classify" job of the governance workflow (one shard per org)   *)
(***************************************************************************)
EXTENDS Integers, Sequences, FiniteSets, TLC

VARIABLES
    pc,               \* position of the index.js run: "start", "select", "selected", "exit"
    config,           \* config.phases: ordered sequence of [name, rules]
    metrics,          \* the metrics object: function from metric key to value
    determinedPhase,  \* index.js: let determinedPhase
    inputs,           \* core.getInput: [repo, config_path]
    fsFiles,          \* paths for which fs.existsSync is true
    api,              \* what the remote answers to each of the four queries
    calls,            \* remote queries issued so far, in order
    selected,         \* whether the Dynamic Phase Selection block has run
    output,           \* core.setOutput('phase', ...): "" while unset
    repoJson,         \* the file repo.json
    failed,           \* core.setFailed called: the process exits non-zero
    MODE,             \* workflow input mode
    INDUCTION_REPO_SLUG,  \* workflow input project_repo
    matrix,           \* the org of each classify job, in matrix order
    remoteRepos,      \* per org, what gh repo list answers
    shardPc,          \* per job: "list", "loop", "exited", "done"
    org_repos,        \* per job: the slugs the loop runs over
    attempted,        \* per job: the slugs whose iteration has begun
    results_dir,      \* per job: ./classification-results, file name -> file
    repo_processed_count,
    repo_error_count,
    shardExit,        \* per job: exit status of the Process Repositories step
    stepLog,          \* per job: what each iteration of the loop ran, in order
    artifacts,        \* uploaded artifacts: org -> files
    uploadOutcome,    \* per job: what the upload step did
    PROJECT_ORG,      \* workflow input project_org
    projectsYaml,     \* .lfn/projects.yaml: whether it exists, and its orgs
    enumPc,           \* the enumerate-projects job: "start", "done", "failed"
    reportPc,         \* the publish-report job: "waiting", "build", "publish",
                      \* "done", "skipped", "failed"
    downloaded,       \* the directory ./artifacts after the download
    summary,          \* summary.md
    issues,           \* the open issues labelled lfn-governance
    clock,            \* the runner's clock, in seconds, as date -u reads it
    run_attempt       \* github.run_attempt: how often the report job has run

classifyVars == <<pc, config, metrics, determinedPhase>>
scriptVars == <<inputs, fsFiles, api, calls, selected, output, repoJson, failed>>
shardVars == <<MODE, INDUCTION_REPO_SLUG, matrix, remoteRepos, shardPc, org_repos,
               attempted, results_dir, repo_processed_count, repo_error_count,
               shardExit, stepLog, artifacts, uploadOutcome>>
reportVars == <<PROJECT_ORG, projectsYaml, enumPc, reportPc, downloaded, summary, issues,
                clock, run_attempt>>
vars == <<classifyVars, scriptVars, shardVars, reportVars>>

(***************************************************************************)
(* Bounds of the model.                                                    *)
(***************************************************************************)
MaxRules == 2      \* longest catalog drawn for the classifier
MaxBound == 1      \* thresholds drawn for min/max are 1..MaxBound
MaxVal == 2        \* numeric metric values drawn are 0..MaxVal
MaxClock == 1      \* the clock reads 0..MaxClock
MaxAttempts == 2   \* the report job runs at most MaxAttempts times
MaxIssues == 32    \* open labelled issues: at most MaxIssues

(***************************************************************************)
(* JavaScript values held by the metrics object.                           *)
(***************************************************************************)
Num(n) == [t |-> "number", n |-> n]
Infinity == [t |-> "infinity", n |-> 0]
Bool(b) == [t |-> "boolean", n |-> IF b THEN 1 ELSE 0]
Undefined == [t |-> "undefined", n |-> 0]

\* metrics[metricKey]: a key the object does not hold reads as undefined
LookupMut(m, metricKey) == IF metricKey \in DOMAIN m THEN m[metricKey] ELSE Bool(FALSE)
Lookup(m, metricKey) == IF metricKey \in DOMAIN m THEN m[metricKey] ELSE Undefined

\* val < bound, with JavaScript's ToNumber on the left operand
JsLess(val, bound) ==
    CASE val.t = "number" -> val.n < bound
      [] val.t = "boolean" -> val.n < bound
      [] val.t = "infinity" -> FALSE
      [] OTHER -> FALSE          \* undefined -> NaN: every comparison is false

\* val > bound
JsGreater(val, bound) ==
    CASE val.t = "number" -> val.n > bound
      [] val.t = "boolean" -> val.n > bound
      [] val.t = "infinity" -> TRUE
      [] OTHER -> FALSE

\* !!val
ToBoolean(val) ==
    CASE val.t = "number" -> val.n # 0
      [] val.t = "boolean" -> val.n = 1
      [] val.t = "infinity" -> TRUE
      [] OTHER -> FALSE

(***************************************************************************)
(* Constraints of a phase rule, as js-yaml loads them: an object with      *)
(* optional min / max (a set of at most one number), or a boolean.         *)
(***************************************************************************)
ObjectConstraint(mn, mx) == [kind |-> "object", min |-> mn, max |-> mx, b |-> FALSE]
BooleanConstraint(v) == [kind |-> "boolean", min |-> {}, max |-> {}, b |-> v]

(***************************************************************************)
(* Dynamic Phase Selection (index.js 116-135).                             *)
(***************************************************************************)
\* line 121: val === undefined && metricKey in rules
MissingMetricMut(val) == FALSE
MissingMetric(val) == val = Undefined

\* line 126: constraint.min !== undefined && val < constraint.min
MinViolatedMut(constraint, val) == \E m \in constraint.min : ~JsGreater(val, m)
MinViolated(constraint, val) == \E m \in constraint.min : JsLess(val, m)

\* line 127: constraint.max !== undefined && val > constraint.max
MaxViolatedMut(constraint, val) == \E m \in constraint.max : ~JsLess(val, m)
MaxViolated(constraint, val) == \E m \in constraint.max : JsGreater(val, m)

\* line 128: typeof constraint === 'boolean' && constraint !== !!val
BoolViolatedMut(constraint, val) == FALSE
BoolViolated(constraint, val) ==
    constraint.kind = "boolean" /\ constraint.b # ToBoolean(val)

\* lines 118-130: the inner loop over Object.entries(rules), isMatch on exit
RECURSIVE IsMatch(_, _)
IsMatch(rules, m) ==
    IF rules = <<>> THEN TRUE
    ELSE LET metricKey == Head(rules).key
             constraint == Head(rules).constraint
             val == Lookup(m, metricKey)
         IN  IF MissingMetric(val) THEN FALSE
             ELSE IF \/ MinViolated(constraint, val)
                     \/ MaxViolated(constraint, val)
                     \/ BoolViolated(constraint, val)
                  THEN FALSE
                  ELSE IsMatch(Tail(rules), m)

\* line 37: let determinedPhase = 'Unknown'
DefaultPhaseMut == "unknown"
DefaultPhase == "Unknown"

\* lines 117-135: the outer loop over Object.entries(config.phases)
RECURSIVE SelectPhaseMut(_, _)
SelectPhaseMut(phases, m) ==
    IF phases = <<>> THEN DefaultPhase
    ELSE LET later == SelectPhaseMut(Tail(phases), m)
         IN  IF IsMatch(Head(phases).rules, m) /\ later = DefaultPhase
             THEN Head(phases).name
             ELSE later

RECURSIVE SelectPhase(_, _)
SelectPhase(phases, m) ==
    IF phases = <<>> THEN DefaultPhase
    ELSE IF IsMatch(Head(phases).rules, m)
         THEN Head(phases).name
         ELSE SelectPhase(Tail(phases), m)

(***************************************************************************)
(* classify-config/index.js, the whole run (lines 8-148).                  *)
(***************************************************************************)
\* repository slugs and names are sequences of characters
Slash == "/"

\* the shipped catalog, .lfn/classify-config.yml
Entry(key, constraint) == [key |-> key, constraint |-> constraint]
Phase(name, rules) == [name |-> name, rules |-> rules]
ShippedCatalog == <<
    Phase("spark", <<Entry("contributors", ObjectConstraint({}, {2})),
                     Entry("hasRelease", BooleanConstraint(FALSE))>>),
    Phase("incubation", <<Entry("contributors", ObjectConstraint({3}, {})),
                          Entry("hasRelease", BooleanConstraint(TRUE))>>),
    Phase("active", <<Entry("commits90d", ObjectConstraint({20}, {})),
                      Entry("silentDays", ObjectConstraint({}, {30}))>>),
    Phase("stable", <<Entry("silentDays", ObjectConstraint({31}, {180}))>>),
    Phase("maintenance_lts", <<Entry("ageYrs", ObjectConstraint({5}, {})),
                               Entry("silentDays", ObjectConstraint({181}, {540})),
                               Entry("lastRelDays", ObjectConstraint({}, {730}))>>),
    Phase("archive", <<Entry("archived", BooleanConstraint(TRUE))>>),
    Phase("inaccessible", <<Entry("reachable", BooleanConstraint(FALSE))>>) >>

NoMetrics == [k \in {} |-> Undefined]

NoFile == [exists |-> FALSE, repo |-> <<>>, phase |-> "", details |-> "",
           hasMetrics |-> FALSE, metrics |-> NoMetrics]

\* line 19: !repoSlug || typeof repoSlug !== 'string' || !repoSlug.includes('/')
InvalidRepoInputMut(repoSlug) == repoSlug = <<>>
InvalidRepoInput(repoSlug) ==
    repoSlug = <<>> \/ ~(\E i \in 1..Len(repoSlug) : repoSlug[i] = Slash)

\* line 47: err.status === 404 || err.status === 403 || err.status === 401
InaccessibleStatusMut(status) == status = 404
InaccessibleStatus(status) == status \in {404, 403, 401}

\* line 62: repoData && repoData.archived
IsArchivedMut(repoData) == FALSE
IsArchived(repoData) == repoData.archived

\* lines 81-87
ContributorsMetricMut(resp) == IF resp.ok THEN Num(resp.length) ELSE Undefined
ContributorsMetric(resp) == IF resp.ok THEN Num(resp.length) ELSE Num(0)

\* lines 90-97
Commits90dMetric(resp) == IF resp.ok THEN Num(resp.length) ELSE Num(0)

\* lines 100-112
LastRelDaysMetricMut(resp) == IF resp.status = 200 THEN Num(resp.days) ELSE Num(0)
LastRelDaysMetric(resp) == IF resp.status = 200 THEN Num(resp.days) ELSE Infinity
HasReleaseMetricMut(resp) == Bool(TRUE)
HasReleaseMetric(resp) == Bool(resp.status = 200)

\* lines 77-112: the metrics object after collection
CollectMetrics(a) ==
    [k \in {"ageYrs", "silentDays", "contributors", "commits90d",
            "lastRelDays", "hasRelease"} |->
        CASE k = "ageYrs" -> Num(a.get.ageYrs)
          [] k = "silentDays" -> Num(a.get.silentDays)
          [] k = "contributors" -> ContributorsMetric(a.listContributors)
          [] k = "commits90d" -> Commits90dMetric(a.listCommits)
          [] k = "lastRelDays" -> LastRelDaysMetric(a.getLatestRelease)
          [] OTHER -> HasReleaseMetric(a.getLatestRelease)]

\* lines 142-147: the catch block; nothing is written
ThrownMut(queries, phase) ==
    [failed |-> FALSE, output |-> "", repoJson |-> NoFile, metrics |-> NoMetrics,
     calls |-> queries, selected |-> FALSE, determinedPhase |-> phase]
Thrown(queries, phase) ==
    [failed |-> TRUE, output |-> "", repoJson |-> NoFile, metrics |-> NoMetrics,
     calls |-> queries, selected |-> FALSE, determinedPhase |-> phase]

\* lines 55-60 and 62-68: a terminal record, then return
Terminal(repoSlug, phase, details) ==
    [failed |-> FALSE, output |-> phase,
     repoJson |-> [exists |-> TRUE, repo |-> repoSlug, phase |-> phase,
                   details |-> details, hasMetrics |-> FALSE, metrics |-> NoMetrics],
     metrics |-> NoMetrics, calls |-> <<"repos.get">>, selected |-> FALSE,
     determinedPhase |-> phase]

\* lines 80-112: the three sub-queries, each in its own try/catch, are
\* issued one after the other whatever the others answered
SubQueriesMut(a) ==
    IF ~a.listContributors.ok THEN <<"listContributors">>
    ELSE <<"listContributors", "listCommits", "getLatestRelease">>
SubQueries(a) == <<"listContributors", "listCommits", "getLatestRelease">>

\* lines 77-140: collection, selection, repo.json
Classified(repoSlug, phases, a) ==
    LET m == CollectMetrics(a)
        phase == SelectPhase(phases, m)
    IN  [failed |-> FALSE, output |-> phase,
         repoJson |-> [exists |-> TRUE, repo |-> repoSlug, phase |-> phase,
                       details |-> "", hasMetrics |-> TRUE, metrics |-> m],
         metrics |-> m,
         calls |-> <<"repos.get">> \o SubQueries(a),
         selected |-> TRUE, determinedPhase |-> phase]

\* lines 8-148
RunIndexJs(in, files, phases, a) ==
    IF InvalidRepoInput(in.repo) THEN Thrown(<<>>, "")
    ELSE IF in.config_path = "" THEN Thrown(<<>>, "")
    ELSE IF in.config_path \notin files THEN Thrown(<<>>, "")
    ELSE IF a.get.status # 200
         THEN IF InaccessibleStatus(a.get.status)
              THEN Terminal(in.repo, "Inaccessible",
                            "Repository data not accessible or not found via API.")
              ELSE Thrown(<<"repos.get">>, DefaultPhase)
    ELSE IF IsArchived(a.get)
         THEN Terminal(in.repo, "Archive", "Repository is archived.")
    ELSE Classified(in.repo, phases, a)

(***************************************************************************)
(* Remote answers drawn for the queries; the numeric samples sit on both   *)
(* sides of the shipped thresholds.                                        *)
(***************************************************************************)
AgeYrsSamples == {4, 5}
SilentDaysSamples == {30, 31, 181}
ContributorsSamples == {2, 3}
CommitsSamples == {19, 20}
RelDaysSamples == {730, 731}

\* status 0: the request failed without an HTTP status
GetResponses ==
    {[status |-> 200, archived |-> ar, ageYrs |-> ag, silentDays |-> sd] :
        ar \in BOOLEAN, ag \in AgeYrsSamples, sd \in SilentDaysSamples}
    \cup {[status |-> st, archived |-> FALSE, ageYrs |-> 0, silentDays |-> 0] :
            st \in {404, 403, 401, 500, 0}}
ListResponses(samples) ==
    {[ok |-> TRUE, length |-> n] : n \in samples} \cup {[ok |-> FALSE, length |-> 0]}
ReleaseResponses ==
    {[status |-> 200, days |-> d] : d \in RelDaysSamples}
    \cup {[status |-> st, days |-> 0] : st \in {404, 500}}
ApiResponses ==
    [get : GetResponses,
     listContributors : ListResponses(ContributorsSamples),
     listCommits : ListResponses(CommitsSamples),
     getLatestRelease : ReleaseResponses]
NoApi ==
    [get |-> [status |-> 0, archived |-> FALSE, ageYrs |-> 0, silentDays |-> 0],
     listContributors |-> [ok |-> FALSE, length |-> 0],
     listCommits |-> [ok |-> FALSE, length |-> 0],
     getLatestRelease |-> [status |-> 404, days |-> 0]]

ConfigPath == ".lfn/classify-config.yml"
RepoSlugSample == <<"o", "/", "r">>
RepoInputs == {<<>>, <<"r">>, RepoSlugSample}
ConfigPathInputs == {"", "missing.yml", ConfigPath}
CatchAllCatalog == <<Phase("spark", <<>>)>>
ScriptCatalogs == {ShippedCatalog, CatchAllCatalog, <<>>}

\* the workflow's variables while no workflow run is modelled
ShardIdle ==
    /\ MODE = "review"
    /\ INDUCTION_REPO_SLUG = <<>>
    /\ matrix = <<>>
    /\ remoteRepos = <<>>
    /\ shardPc = <<>>
    /\ org_repos = <<>>
    /\ attempted = <<>>
    /\ results_dir = <<>>
    /\ repo_processed_count = <<>>
    /\ repo_error_count = <<>>
    /\ shardExit = <<>>
    /\ stepLog = <<>>
    /\ artifacts = <<>>
    /\ uploadOutcome = <<>>

\* summary.md before the report is built
NoSummary == [kind |-> "none", sections |-> <<>>]

\* the variables of the enumerate-projects and publish-report jobs while
\* these jobs are not modelled
ReportIdle ==
    /\ PROJECT_ORG = <<>>
    /\ projectsYaml = [exists |-> FALSE, orgs |-> <<>>]
    /\ enumPc = "done"
    /\ reportPc = "waiting"
    /\ downloaded = <<>>
    /\ summary = NoSummary
    /\ issues = <<>>
    /\ clock = 0
    /\ run_attempt = 1

\* the script's variables while no run of index.js is modelled
ScriptIdle ==
    /\ inputs = [repo |-> <<>>, config_path |-> ""]
    /\ fsFiles = {}
    /\ api = NoApi
    /\ calls = <<>>
    /\ selected = FALSE
    /\ output = ""
    /\ repoJson = NoFile
    /\ failed = FALSE

(***************************************************************************)
(* Specification of one run of index.js on drawn inputs and remote answers.*)
(***************************************************************************)
InitScript ==
    /\ pc = "start"
    /\ config \in ScriptCatalogs
    /\ inputs \in [repo : RepoInputs, config_path : ConfigPathInputs]
    /\ fsFiles = {ConfigPath}
    /\ api \in ApiResponses
    /\ metrics = NoMetrics
    /\ determinedPhase = ""
    /\ calls = <<>>
    /\ selected = FALSE
    /\ output = ""
    /\ repoJson = NoFile
    /\ failed = FALSE
    /\ ShardIdle
    /\ ReportIdle

IndexJs ==
    /\ pc = "start"
    /\ LET r == RunIndexJs(inputs, fsFiles, config, api)
       IN  /\ metrics' = r.metrics
           /\ determinedPhase' = r.determinedPhase
           /\ calls' = r.calls
           /\ selected' = r.selected
           /\ output' = r.output
           /\ repoJson' = r.repoJson
           /\ failed' = r.failed
    /\ pc' = "exit"
    /\ UNCHANGED <<config, inputs, fsFiles, api>>
    /\ UNCHANGED <<shardVars, reportVars>>

NextScript == IndexJs

SpecScript == InitScript /\ [][NextScript]_vars

(***************************************************************************)
(* The classify job: "Process Repositories for Org" and the artifact       *)
(* upload (workflow lines 183-398), one job per matrix entry.              *)
(***************************************************************************)
MaxRepos == 2      \* longest listing drawn for an organization

Archived_lower == <<"a", "r", "c", "h", "i", "v", "e", "d">>
Archived_capital == <<"A", "r", "c", "h", "i", "v", "e", "d">>
Archived_upper == <<"A", "R", "C", "H", "I", "V", "E", "D">>

ToLowerChar(c) ==
    IF \E i \in 1..Len(Archived_upper) : Archived_upper[i] = c
    THEN Archived_lower[CHOOSE i \in 1..Len(Archived_upper) : Archived_upper[i] = c]
    ELSE c
ToLower(s) == [i \in 1..Len(s) |-> ToLowerChar(s[i])]

\* the pattern occurs in s
Contains(s, pat) ==
    \E i \in 0..(Len(s) - Len(pat)) : SubSeq(s, i + 1, i + Len(pat)) = pat

\* "$INDUCTION_REPO_SLUG" == "$current_org/"*
StartsWith(s, prefix) ==
    Len(s) >= Len(prefix) /\ SubSeq(s, 1, Len(prefix)) = prefix

\* basename "$INDUCTION_REPO_SLUG"
Basename(s) ==
    LET cuts == {i \in 1..Len(s) : s[i] = Slash}
    IN  IF cuts = {} THEN s
        ELSE SubSeq(s, (CHOOSE i \in cuts : \A k \in cuts : k <= i) + 1, Len(s))

\* line 255: [[ name == *archived* ]] || [[ name == *Archived* ]]
InductionNameArchived(name) ==
    Contains(name, Archived_lower) \/ Contains(name, Archived_capital)

\* lines 263-272: gh repo list ended with a non-zero status
ListingFailedMut(listing) == FALSE
ListingFailed(listing) == ~listing.ok

\* line 274: jq -e '. == null or length == 0'
ListingIsEmptyMut(names) == FALSE
ListingIsEmpty(names) == names = <<>>

\* line 280: grep -vi 'archived' keeps the lines without the marker
GrepVIMut(names) == names
RECURSIVE GrepVI(_)
GrepVI(names) ==
    IF names = <<>> THEN <<>>
    ELSE IF Contains(ToLower(Head(names)), Archived_lower)
         THEN GrepVI(Tail(names))
         ELSE <<Head(names)>> \o GrepVI(Tail(names))

\* line 301: sed 's|/|--|g'
RECURSIVE SafeName(_)
SafeName(slug) ==
    IF slug = <<>> THEN <<>>
    ELSE (IF Head(slug) = Slash THEN <<"-", "-">> ELSE <<Head(slug)>>)
         \o SafeName(Tail(slug))

Slug(org, name) == org \o <<Slash>> \o name

\* line 227: set -euo pipefail - a failing simple command ends the script
ErrExit == TRUE

\* lines 313-314: git_output=$( (git clone ...) 2>&1 || true ); git_exit_code=$?
\* the status read is that of the substitution, which "|| true" makes 0
GitExitCode(cloneStatus) == 0

\* a result file, as the workflow reads it back: .phase and .error
File(phase, error) == [phase |-> phase, error |-> error]

WriteFile(dir, name, file) ==
    [n \in (DOMAIN dir) \cup {name} |-> IF n = name THEN file ELSE dir[n]]

\* what a run of index.js leaves to the wrapper: its exit status and repo.json
NodeRun(r) ==
    [exit |-> IF r.failed THEN 1 ELSE 0,
     repoJson |-> r.repoJson.exists,
     phase |-> r.repoJson.phase,
     calls |-> r.calls]

\* lines 333-336: node index.js with INPUT_REPO the slug and INPUT_CONFIG_PATH
\* the shipped configuration; the slug holds a '/', so the run depends on
\* the remote answers alone
NodeRuns ==
    {NodeRun(RunIndexJs([repo |-> RepoSlugSample, config_path |-> ConfigPath],
                        {ConfigPath}, ShippedCatalog, a)) : a \in ApiResponses}

\* line 352: the record written over repo.json when its phase cannot be read
ReadErrorRecordMut == File("Read Error", "")
ReadErrorRecord == File("Read Error", "Failed to read phase from script output")

\* lines 310-374: one iteration of the loop, from the clone to the counters
Iteration(cloneStatus, node, readOk) ==
    IF GitExitCode(cloneStatus) # 0
    THEN [abort |-> FALSE, exit |-> 0, repo_failed |-> TRUE, ran |-> FALSE,
          file |-> File("Checkout Failed", "Checkout failed")]
    ELSE IF node.exit # 0
    THEN IF ErrExit
         THEN [abort |-> TRUE, exit |-> node.exit, repo_failed |-> FALSE, ran |-> TRUE,
               file |-> File("", "")]
         ELSE [abort |-> FALSE, exit |-> 0, repo_failed |-> TRUE, ran |-> TRUE,
               file |-> File("Classification Error", "Classification script failed")]
    ELSE IF node.repoJson
    THEN IF readOk
         THEN [abort |-> FALSE, exit |-> 0, repo_failed |-> FALSE, ran |-> TRUE,
               file |-> File(node.phase, "")]
         ELSE [abort |-> FALSE, exit |-> 0, repo_failed |-> TRUE, ran |-> TRUE,
               file |-> ReadErrorRecord]
    ELSE [abort |-> FALSE, exit |-> 0, repo_failed |-> TRUE, ran |-> TRUE,
          file |-> File("Classification Error",
                        "Classification script did not produce output file")]

\* what the step's log shows of one iteration: the outcome of the clone
\* (311-323), whether the script was run and how it ended (331-358), and
\* whether the repository was counted as failed (368-369)
LogEntry(repo_slug, cloneStatus, node, it) ==
    [repo_slug |-> repo_slug,
     cloned |-> cloneStatus = 0,
     ran |-> it.ran,
     node_exit |-> IF it.ran THEN node.exit ELSE 0,
     queries |-> IF it.ran THEN node.calls ELSE <<>>,
     produced |-> it.ran /\ node.repoJson,
     counted_failed |-> ~it.abort /\ it.repo_failed]

Jobs == DOMAIN matrix

\* line 295: for repo_slug in "${org_repos[@]}" - the slug after those done
NextSlugMut(repos, done) == repos[1]
NextSlug(repos, done) == repos[Len(done) + 1]

\* lines 247-292: the list of slugs, or the exit that ends the step
ListRepositories(j) ==
    /\ shardPc[j] = "list"
    /\ LET current_org == matrix[j]
           listing == remoteRepos[current_org]
           kept == GrepVI(listing.names)
           exits(code) ==
               /\ shardPc' = [shardPc EXCEPT ![j] = "exited"]
               /\ shardExit' = [shardExit EXCEPT ![j] = code]
               /\ UNCHANGED org_repos
           loops(slugs) ==
               /\ shardPc' = [shardPc EXCEPT ![j] = "loop"]
               /\ org_repos' = [org_repos EXCEPT ![j] = slugs]
               /\ UNCHANGED shardExit
       IN  IF /\ MODE = "induction"
              /\ INDUCTION_REPO_SLUG # <<>>
              /\ StartsWith(INDUCTION_REPO_SLUG, current_org \o <<Slash>>)
           THEN IF InductionNameArchived(Basename(INDUCTION_REPO_SLUG))
                THEN exits(0)
                ELSE loops(<<INDUCTION_REPO_SLUG>>)
           ELSE IF ListingFailed(listing) THEN exits(1)
           ELSE IF ListingIsEmpty(listing.names) THEN exits(0)
           ELSE IF ErrExit /\ kept = <<>> THEN exits(1)
           ELSE IF kept = <<>> THEN exits(0)
           ELSE loops([i \in 1..Len(kept) |-> Slug(current_org, kept[i])])
    /\ UNCHANGED <<MODE, INDUCTION_REPO_SLUG, matrix, remoteRepos, attempted,
                   results_dir, repo_processed_count, repo_error_count, stepLog,
                   artifacts, uploadOutcome>>
    /\ UNCHANGED <<classifyVars, scriptVars, reportVars>>

\* lines 295-389: one pass of the loop body; after the last slug the step
\* ends with status 0
ProcessRepository(j) ==
    /\ shardPc[j] = "loop"
    /\ Len(attempted[j]) < Len(org_repos[j])
    /\ \E cloneStatus \in {0, 128}, node \in NodeRuns, readOk \in BOOLEAN :
        LET repo_slug == NextSlug(org_repos[j], attempted[j])
            result_json_path == SafeName(repo_slug)
            it == Iteration(cloneStatus, node, readOk)
            last == Len(attempted[j]) + 1 = Len(org_repos[j])
        IN  /\ attempted' = [attempted EXCEPT ![j] = Append(@, repo_slug)]
            /\ stepLog' = [stepLog EXCEPT ![j] = Append(@, LogEntry(repo_slug, cloneStatus, node, it))]
            /\ IF it.abort
               THEN /\ shardPc' = [shardPc EXCEPT ![j] = "exited"]
                    /\ shardExit' = [shardExit EXCEPT ![j] = it.exit]
                    /\ UNCHANGED <<results_dir, repo_processed_count, repo_error_count>>
               ELSE /\ results_dir' =
                           [results_dir EXCEPT ![j] = WriteFile(@, result_json_path, it.file)]
                    /\ repo_processed_count' = [repo_processed_count EXCEPT ![j] = @ + 1]
                    /\ repo_error_count' =
                           [repo_error_count EXCEPT ![j] = IF it.repo_failed THEN @ + 1 ELSE @]
                    /\ shardPc' = [shardPc EXCEPT ![j] = IF last THEN "exited" ELSE "loop"]
                    /\ shardExit' = [shardExit EXCEPT ![j] = 0]
    /\ UNCHANGED <<MODE, INDUCTION_REPO_SLUG, matrix, remoteRepos, org_repos, artifacts,
                   uploadOutcome>>
    /\ UNCHANGED <<classifyVars, scriptVars, reportVars>>

\* lines 391-398: upload-artifact, if: always(); with no file there is
\* nothing to upload, and a name already taken in the run is not replaced
NameTakenMut(arts, name) == FALSE
NameTaken(arts, name) == name \in DOMAIN arts

UploadArtifacts(j) ==
    /\ shardPc[j] = "exited"
    /\ shardPc' = [shardPc EXCEPT ![j] = "done"]
    /\ IF DOMAIN results_dir[j] = {}
       THEN /\ uploadOutcome' = [uploadOutcome EXCEPT ![j] = "no files"]
            /\ UNCHANGED artifacts
       ELSE IF NameTaken(artifacts, matrix[j])
       THEN /\ uploadOutcome' = [uploadOutcome EXCEPT ![j] = "conflict"]
            /\ UNCHANGED artifacts
       ELSE /\ uploadOutcome' = [uploadOutcome EXCEPT ![j] = "uploaded"]
            /\ artifacts' = [o \in (DOMAIN artifacts) \cup {matrix[j]} |->
                                IF o = matrix[j] THEN results_dir[j] ELSE artifacts[o]]
    /\ UNCHANGED <<MODE, INDUCTION_REPO_SLUG, matrix, remoteRepos, org_repos, attempted,
                   results_dir, repo_processed_count, repo_error_count, shardExit,
                   stepLog>>
    /\ UNCHANGED <<classifyVars, scriptVars, reportVars>>

(***************************************************************************)
(* Specification of one classify job on a drawn organization, listing and  *)
(* workflow inputs.                                                        *)
(***************************************************************************)
Orgs == {<<"o">>, <<"p">>}
RepoNames == {<<"r">>, <<"s">>, Archived_lower, Archived_capital, Archived_upper}

RECURSIVE DistinctSeqs(_, _)
DistinctSeqs(S, n) ==
    IF n = 0 THEN {<<>>}
    ELSE {<<>>} \cup
         {p[1] \o p[2] : p \in {q \in {<<x>> : x \in S} \X DistinctSeqs(S, n - 1) :
                                   \A i \in 1..Len(q[2]) : q[2][i] # q[1][1]}}

Listings ==
    {[ok |-> TRUE, names |-> ns] : ns \in DistinctSeqs(RepoNames, MaxRepos)}
    \cup {[ok |-> FALSE, names |-> <<>>]}

InductionSlugs == {<<>>} \cup {Slug(o, n) : o \in Orgs, n \in RepoNames}

NoFiles == [n \in {} |-> File("", "")]
NoArtifacts == [o \in {} |-> NoFiles]

InitShard ==
    /\ pc = "idle"
    /\ config = ShippedCatalog
    /\ metrics = NoMetrics
    /\ determinedPhase = ""
    /\ inputs = [repo |-> <<>>, config_path |-> ConfigPath]
    /\ fsFiles = {ConfigPath}
    /\ api = NoApi
    /\ calls = <<>>
    /\ selected = FALSE
    /\ output = ""
    /\ repoJson = NoFile
    /\ failed = FALSE
    /\ MODE \in {"review", "induction"}
    /\ INDUCTION_REPO_SLUG \in InductionSlugs
    /\ matrix \in {<<o>> : o \in Orgs}
    /\ remoteRepos \in [{matrix[j] : j \in DOMAIN matrix} -> Listings]
    /\ shardPc = [j \in DOMAIN matrix |-> "list"]
    /\ org_repos = [j \in DOMAIN matrix |-> <<>>]
    /\ attempted = [j \in DOMAIN matrix |-> <<>>]
    /\ results_dir = [j \in DOMAIN matrix |-> NoFiles]
    /\ repo_processed_count = [j \in DOMAIN matrix |-> 0]
    /\ repo_error_count = [j \in DOMAIN matrix |-> 0]
    /\ shardExit = [j \in DOMAIN matrix |-> 0]
    /\ stepLog = [j \in DOMAIN matrix |-> <<>>]
    /\ artifacts = NoArtifacts
    /\ uploadOutcome = [j \in DOMAIN matrix |-> "none"]
    /\ ReportIdle

NextShard ==
    \/ \E j \in Jobs : ListRepositories(j)
    \/ \E j \in Jobs : ProcessRepository(j)
    \/ \E j \in Jobs : UploadArtifacts(j)

SpecShard == InitShard /\ [][NextShard]_vars

(***************************************************************************)
(* The publish-report job: "Build Markdown Report" (workflow lines 434-542).*)
(* Text is a sequence of characters; sort compares bytes (the runner's     *)
(* locale is C.UTF-8).                                                     *)
(***************************************************************************)
\* the characters the report's lines are made of, in byte order
AsciiOrder == <<" ", "(", ")", "-", ".", "/", "0", "1", ":", "A", "B", "C",
                "D", "E", "F", "G", "H", "I", "J", "K", "L", "M", "N", "O",
                "P", "Q", "R", "S", "T", "U", "V", "W", "X", "Y", "Z", "[",
                "]", "_", "a", "b", "c", "d", "e", "f", "g", "h", "i", "j",
                "k", "l", "m", "n", "o", "p", "q", "r", "s", "t", "u", "v",
                "w", "x", "y", "z", "|">>

Code == [c \in {AsciiOrder[i] : i \in 1..Len(AsciiOrder)} |->
            CHOOSE i \in 1..Len(AsciiOrder) : AsciiOrder[i] = c]

\* the phase strings of the result files, as text
PhaseText ==
    "spark" :>
        <<"s", "p", "a", "r", "k">>
    @@
    "incubation" :>
        <<"i", "n", "c", "u", "b", "a", "t", "i", "o", "n">>
    @@
    "active" :>
        <<"a", "c", "t", "i", "v", "e">>
    @@
    "stable" :>
        <<"s", "t", "a", "b", "l", "e">>
    @@
    "maintenance_lts" :>
        <<"m", "a", "i", "n", "t", "e", "n", "a", "n", "c", "e", "_", "l",
          "t", "s">>
    @@
    "Unknown" :>
        <<"U", "n", "k", "n", "o", "w", "n">>
    @@
    "Inaccessible" :>
        <<"I", "n", "a", "c", "c", "e", "s", "s", "i", "b", "l", "e">>
    @@
    "Archive" :>
        <<"A", "r", "c", "h", "i", "v", "e">>
    @@
    "Read Error" :>
        <<"R", "e", "a", "d", " ", "E", "r", "r", "o", "r">>
    @@
    "Checkout Failed" :>
        <<"C", "h", "e", "c", "k", "o", "u", "t", " ", "F", "a", "i", "l",
          "e", "d">>
    @@
    "Classification Error" :>
        <<"C", "l", "a", "s", "s", "i", "f", "i", "c", "a", "t", "i", "o",
          "n", " ", "E", "r", "r", "o", "r">>
    @@
    "Error" :>
        <<"E", "r", "r", "o", "r">>

\* the error strings of the result files, as text
ErrorText ==
    "Checkout failed" :>
        <<"C", "h", "e", "c", "k", "o", "u", "t", " ", "f", "a", "i", "l",
          "e", "d">>
    @@
    "Classification script failed" :>
        <<"C", "l", "a", "s", "s", "i", "f", "i", "c", "a", "t", "i", "o",
          "n", " ", "s", "c", "r", "i", "p", "t", " ", "f", "a", "i", "l",
          "e", "d">>
    @@
    "Failed to read phase from script output" :>
        <<"F", "a", "i", "l", "e", "d", " ", "t", "o", " ", "r", "e", "a",
          "d", " ", "p", "h", "a", "s", "e", " ", "f", "r", "o", "m", " ",
          "s", "c", "r", "i", "p", "t", " ", "o", "u", "t", "p", "u", "t">>
    @@
    "Classification script did not produce output file" :>
        <<"C", "l", "a", "s", "s", "i", "f", "i", "c", "a", "t", "i", "o",
          "n", " ", "s", "c", "r", "i", "p", "t", " ", "d", "i", "d", " ",
          "n", "o", "t", " ", "p", "r", "o", "d", "u", "c", "e", " ", "o",
          "u", "t", "p", "u", "t", " ", "f", "i", "l", "e">>
    @@
    "Processing failed before result generation" :>
        <<"P", "r", "o", "c", "e", "s", "s", "i", "n", "g", " ", "f", "a",
          "i", "l", "e", "d", " ", "b", "e", "f", "o", "r", "e", " ", "r",
          "e", "s", "u", "l", "t", " ", "g", "e", "n", "e", "r", "a", "t",
          "i", "o", "n">>

GithubUrl == <<"h", "t", "t", "p", "s", ":", "/", "/", "g", "i", "t", "h",
               "u", "b", ".", "c", "o", "m", "/">>
ErrorColon == <<"E", "r", "r", "o", "r", ":", " ">>
UnknownParseError == <<"U", "n", "k", "n", "o", "w", "n", " ", "(", "P",
                       "a", "r", "s", "e", " ", "E", "r", "r", "o", "r",
                       ")">>

\* line 525: the prefixes the awk pattern tests on the phase column
ErrorClassPrefixes ==
    {<<"E", "r", "r", "o", "r">>,
     <<"U", "n", "k", "n", "o", "w", "n">>,
     <<"C", "h", "e", "c", "k", "o", "u", "t", " ", "F", "a", "i", "l", "e",
       "d">>,
     <<"C", "l", "a", "s", "s", "i", "f", "i", "c", "a", "t", "i", "o", "n", " ",
       "E", "r", "r", "o", "r">>}

\* ${artifact_name//--/\/} (line 468): every "--", left to right
RECURSIVE ReplaceDashes(_)
ReplaceDashes(s) ==
    IF Len(s) < 2 THEN s
    ELSE IF s[1] = "-" /\ s[2] = "-"
         THEN <<Slash>> \o ReplaceDashes(SubSeq(s, 3, Len(s)))
         ELSE <<s[1]>> \o ReplaceDashes(Tail(s))

\* the position of the first '/', 0 when there is none
FirstSlash(s) ==
    IF \E i \in 1..Len(s) : s[i] = Slash
    THEN CHOOSE i \in 1..Len(s) : s[i] = Slash /\ \A k \in 1..(i - 1) : s[k] # Slash
    ELSE 0

\* project=${full%%/*} (line 469)
ProjectOf(full) ==
    IF FirstSlash(full) = 0 THEN full ELSE SubSeq(full, 1, FirstSlash(full) - 1)

\* repo=${full#*/} (line 470)
RepoOf(full) ==
    IF FirstSlash(full) = 0 THEN full ELSE SubSeq(full, FirstSlash(full) + 1, Len(full))

\* what a result file can hold besides a phase string: a phase that is null
\* or absent, text that is no JSON, and no bytes at all
JsonNull == "(null)"
NotJson == [content |-> "not json"]
NoBytes == [content |-> ""]

\* jq -r '.<field> // <default>' "$file" 2>/dev/null (lines 473, 478): its
\* exit status and what it prints; "//" replaces null, not the empty string,
\* and no input at all gives no output and status 0
Jq(file, field, default) ==
    IF file = NotJson THEN [exit |-> 2, out |-> ""]
    ELSE IF file = NoBytes THEN [exit |-> 0, out |-> ""]
    ELSE IF file[field] = JsonNull THEN [exit |-> 0, out |-> default]
    ELSE [exit |-> 0, out |-> file[field]]

\* lines 473-487: the phase column of a result file; a file whose phase is
\* absent reads as 'Unknown', one whose phase is the empty string takes the
\* error text
ReadPhase(file) ==
    LET phase == Jq(file, "phase", "Unknown")
        error_msg == Jq(file, "error", "")
    IN  IF phase.exit # 0 \/ phase.out = "" \/ phase.out = "null"
        THEN IF error_msg.out # "" THEN ErrorColon \o ErrorText[error_msg.out]
             ELSE UnknownParseError
        ELSE PhaseText[phase.out]

\* line 438: set -euo pipefail - in the build step too a failing simple
\* command, the assignment phase=$(jq ...) of line 473 among them, ends the
\* script
BuildErrExit == TRUE

\* line 473 under line 438: the step ends at the first file jq fails on
BuildAborts(dir) ==
    /\ BuildErrExit
    /\ \E a \in DOMAIN dir : \E n \in DOMAIN dir[a] :
           Jq(dir[a][n], "phase", "Unknown").exit # 0

\* line 490: row_line="| [$repo](https://github.com/$project/$repo) | $phase |"
\* (the head of the statement is missing at 490; it is that of the same
\* statement in the earlier workflow, whose tail is identical)
RowLine(project, repo, phase) ==
    <<"|", " ", "[">> \o repo \o <<"]", "(">> \o GithubUrl \o project
        \o <<Slash>> \o repo \o <<")", " ", "|", " ">> \o phase \o <<" ", "|">>

\* the fields of a line for a one-character separator (awk -F, sort -t)
RECURSIVE Split(_, _)
Split(line, sep) ==
    IF \E i \in 1..Len(line) : line[i] = sep
    THEN LET i == CHOOSE k \in 1..Len(line) :
                      line[k] = sep /\ \A m \in 1..(k - 1) : line[m] # sep
         IN  <<SubSeq(line, 1, i - 1)>> \o Split(SubSeq(line, i + 1, Len(line)), sep)
    ELSE <<line>>

\* the fields joined by awk's output separator, a space
RECURSIVE Join(_)
Join(fields) ==
    IF Len(fields) = 1 THEN fields[1]
    ELSE fields[1] \o <<" ">> \o Join(Tail(fields))

\* gsub(/^[ \t]+|[ \t]+$/, "", $3)
RECURSIVE TrimLeft(_)
TrimLeft(s) == IF s # <<>> /\ Head(s) = " " THEN TrimLeft(Tail(s)) ELSE s
RECURSIVE TrimRight(_)
TrimRight(s) ==
    IF s # <<>> /\ s[Len(s)] = " " THEN TrimRight(SubSeq(s, 1, Len(s) - 1)) ELSE s
Trim(s) == TrimRight(TrimLeft(s))

\* $3 ~ /^Error|^Unknown|^Checkout Failed|^Classification Error/
ErrorClassMut(column) == FALSE
ErrorClass(column) == \E prefix \in ErrorClassPrefixes : StartsWith(column, prefix)

\* line 525: the awk program on one line; a field that gsub changes makes awk
\* rebuild the record from its fields with single spaces between them
Awk(line) ==
    LET fields == Split(line, "|")
    IN  IF Len(fields) < 3 THEN <<"1">> \o line
        ELSE LET column == Trim(fields[3])
                 record == IF column = fields[3] THEN line
                           ELSE Join([fields EXCEPT ![3] = column])
             IN  <<IF ErrorClass(column) THEN "0" ELSE "1">> \o record

\* byte-wise comparison of two texts: -1, 0 or 1
RECURSIVE Compare(_, _)
Compare(a, b) ==
    IF a = <<>> THEN (IF b = <<>> THEN 0 ELSE -1)
    ELSE IF b = <<>> THEN 1
    ELSE IF Code[Head(a)] < Code[Head(b)] THEN -1
    ELSE IF Code[Head(a)] > Code[Head(b)] THEN 1
    ELSE Compare(Tail(a), Tail(b))

\* field k of a line for sort -t'|'
KeyField(line, k) ==
    LET fields == Split(line, "|")
    IN  IF k <= Len(fields) THEN fields[k] ELSE <<>>

\* line 526: sort -t'|' -k1,1 -k2,2 -k3,3, then the whole line as last resort
SortBefore(a, b) ==
    LET c1 == Compare(KeyField(a, 1), KeyField(b, 1))
        c2 == Compare(KeyField(a, 2), KeyField(b, 2))
        c3 == Compare(KeyField(a, 3), KeyField(b, 3))
    IN  IF c1 # 0 THEN c1 < 0
        ELSE IF c2 # 0 THEN c2 < 0
        ELSE IF c3 # 0 THEN c3 < 0
        ELSE Compare(a, b) <= 0

RECURSIVE Insert(_, _)
Insert(line, sorted) ==
    IF sorted = <<>> THEN <<line>>
    ELSE IF SortBefore(line, Head(sorted)) THEN <<line>> \o sorted
    ELSE <<Head(sorted)>> \o Insert(line, Tail(sorted))

RECURSIVE Sort(_)
Sort(lines) == IF lines = <<>> THEN <<>> ELSE Insert(Head(lines), Sort(Tail(lines)))

\* line 527: sed 's/^.//'
Sed(line) == Tail(line)

\* lines 524-527: the rows of one section
SectionRows(rows) ==
    LET marked == [i \in 1..Len(rows) |-> Awk(rows[i])]
        sorted == Sort(marked)
    IN  [i \in 1..Len(sorted) |-> Sed(sorted[i])]

\* the files find prints (line 498): every *.json two levels down; their
\* order is the directory's, and the sort's result does not depend on it
FoundFiles(dir) == UNION {{<<a, n>> : n \in DOMAIN dir[a]} : a \in DOMAIN dir}

RECURSIVE SeqOf(_)
SeqOf(S) ==
    IF S = {} THEN <<>>
    ELSE LET x == CHOOSE y \in S : TRUE IN <<x>> \o SeqOf(S \ {x})

\* lines 457-498: rows_data, the row lines of each project
RowOfFile(dir, found) ==
    LET full == ReplaceDashes(found[2])
    IN  RowLine(ProjectOf(full), RepoOf(full), ReadPhase(dir[found[1]][found[2]]))

rows_data(dir) ==
    LET found == FoundFiles(dir)
        projects == {ProjectOf(ReplaceDashes(f[2])) : f \in found}
    IN  [project \in projects |->
            LET mine == SeqOf({f \in found : ProjectOf(ReplaceDashes(f[2])) = project})
            IN  [i \in 1..Len(mine) |-> RowOfFile(dir, mine[i])]]

\* line 516: the projects, sorted
RECURSIVE sorted_projectsMut(_)
sorted_projectsMut(projects) ==
    IF projects = {} THEN <<>>
    ELSE LET first == CHOOSE p \in projects : \A q \in projects : Compare(q, p) <= 0
         IN  <<first>> \o sorted_projectsMut(projects \ {first})
RECURSIVE sorted_projects(_)
sorted_projects(projects) ==
    IF projects = {} THEN <<>>
    ELSE LET first == CHOOSE p \in projects : \A q \in projects : Compare(p, q) <= 0
         IN  <<first>> \o sorted_projects(projects \ {first})

\* line 511: the run the report links to, the same for every attempt of a run
github_run_id == "run_id"

\* line 448: [ ! -d "artifacts" ] || [ -z "$(ls -A artifacts)" ]
ArtifactsMissingOrEmptyMut(dir) == FALSE
ArtifactsMissingOrEmpty(dir) == DOMAIN dir = {}

\* lines 448-530: summary.md; the report proper carries the line
\* "Generated on: $(date -u)" (510) and the link of the run (511), the two
\* placeholder documents do not
Summary(dir, date) ==
    IF ArtifactsMissingOrEmpty(dir)
    THEN [kind |-> "no artifacts", sections |-> <<>>]
    ELSE IF DOMAIN rows_data(dir) = {}
    THEN [kind |-> "no data", sections |-> <<>>]
    ELSE LET projects == sorted_projects(DOMAIN rows_data(dir))
         IN  [kind |-> "report",
              generated_on |-> date,
              workflow_run |-> github_run_id,
              sections |-> [i \in 1..Len(projects) |->
                               [project |-> projects[i],
                                rows |-> SectionRows(rows_data(dir)[projects[i]])]]]

(***************************************************************************)
(* The workflow: enumerate-projects, the classify matrix and publish-report*)
(* (workflow lines 97-599).                                                *)
(***************************************************************************)
\* line 145: the orgs yq prints, without the empty lines
NonEmptyLines(orgs) == SelectSeq(orgs, LAMBDA o : o # <<>>)

\* lines 131-166: "Build org matrix"; the classify job runs once per entry of
\* the matrix and not at all when the step fails or the matrix is empty (186)
BuildOrgMatrix ==
    /\ enumPc = "start"
    /\ LET fails == IF MODE = "induction" THEN PROJECT_ORG = <<>>
                    ELSE ~projectsYaml.exists
           org_list == IF MODE = "induction" THEN <<PROJECT_ORG>>
                       ELSE NonEmptyLines(projectsYaml.orgs)
       IN  IF fails
           THEN /\ enumPc' = "failed"
                /\ UNCHANGED <<matrix, shardPc, org_repos, attempted, results_dir,
                               repo_processed_count, repo_error_count, shardExit,
                               stepLog, uploadOutcome>>
           ELSE /\ enumPc' = "done"
                /\ matrix' = org_list
                /\ shardPc' = [j \in DOMAIN org_list |-> "list"]
                /\ org_repos' = [j \in DOMAIN org_list |-> <<>>]
                /\ attempted' = [j \in DOMAIN org_list |-> <<>>]
                /\ results_dir' = [j \in DOMAIN org_list |-> NoFiles]
                /\ repo_processed_count' = [j \in DOMAIN org_list |-> 0]
                /\ repo_error_count' = [j \in DOMAIN org_list |-> 0]
                /\ shardExit' = [j \in DOMAIN org_list |-> 0]
                /\ stepLog' = [j \in DOMAIN org_list |-> <<>>]
                /\ uploadOutcome' = [j \in DOMAIN org_list |-> "none"]
    /\ UNCHANGED <<MODE, INDUCTION_REPO_SLUG, remoteRepos, artifacts>>
    /\ UNCHANGED <<PROJECT_ORG, projectsYaml, reportPc, downloaded, summary, issues,
                   clock, run_attempt>>
    /\ UNCHANGED <<classifyVars, scriptVars>>

\* line 414, needs: classify - every job of the matrix has completed
NeedsMut(pcs) == TRUE
Needs(pcs) == \A j \in DOMAIN pcs : pcs[j] = "done"

\* line 416, if: always()
RunsIfMut(succeeded) == succeeded
RunsIf(succeeded) == TRUE

\* a classify job succeeded: its steps all ended with status 0
JobSucceeded(j) == shardExit[j] = 0 /\ uploadOutcome[j] # "conflict"

\* lines 413-423: publish-report starts, or is skipped, once the jobs it
\* needs have completed; its first step downloads every artifact of the run
DownloadArtifacts ==
    /\ reportPc = "waiting"
    /\ enumPc # "start"
    /\ Needs(shardPc)
    /\ IF RunsIf(enumPc = "done" /\ Jobs # {} /\ \A j \in Jobs : JobSucceeded(j))
       THEN /\ reportPc' = "build"
            /\ downloaded' = artifacts
       ELSE /\ reportPc' = "skipped"
            /\ UNCHANGED downloaded
    /\ UNCHANGED <<PROJECT_ORG, projectsYaml, enumPc, summary, issues, clock, run_attempt>>
    /\ UNCHANGED <<classifyVars, scriptVars, shardVars>>

\* lines 434-542: the step "Build Markdown Report"; when the script ends early
\* summary.md is not written, the step fails and the steps after it, which
\* have no "if:", are skipped
BuildMarkdownReport ==
    /\ reportPc = "build"
    /\ IF BuildAborts(downloaded)
       THEN /\ reportPc' = "failed"
            /\ UNCHANGED <<summary, clock>>
       ELSE /\ \E now \in clock..MaxClock :
                   /\ clock' = now
                   /\ summary' = Summary(downloaded, now)
            /\ reportPc' = "publish"
    /\ UNCHANGED <<PROJECT_ORG, projectsYaml, enumPc, downloaded, issues, run_attempt>>
    /\ UNCHANGED <<classifyVars, scriptVars, shardVars>>

(***************************************************************************)
(* Specification of the report step on drawn partitions: per organization  *)
(* the result files its shard can have uploaded.                           *)
(***************************************************************************)
ReportRepoNames == {<<"r">>, <<"r", "-", "s">>, <<"s">>}

\* the files the classify job writes: repo.json as index.js leaves it
\* (344-347) and the wrapper's own records (326, 343, 352, 358, 372)
WrittenFiles ==
    {File(n.phase, "") : n \in {m \in NodeRuns : m.repoJson}}
    \cup {File("Checkout Failed", "Checkout failed"),
          File("Classification Error", "Classification script failed"),
          File("Classification Error", "Classification script did not produce output file"),
          File("Read Error", "Failed to read phase from script output"),
          File("Error", "Processing failed before result generation")}

\* the results directories a shard of org can upload over the names given
ResultsDirs(org, names, files) ==
    UNION {[{SafeName(Slug(org, n)) : n \in present} -> files] : present \in SUBSET names}

\* ./artifacts: one subdirectory per artifact; a shard without files uploads none
ArtifactsDir(byOrg) ==
    [o \in {q \in DOMAIN byOrg : byOrg[q] # NoFiles} |-> byOrg[o]]

Downloads ==
    {ArtifactsDir(<<"o">> :> first @@ <<"p">> :> second) :
        first \in ResultsDirs(<<"o">>, ReportRepoNames, WrittenFiles),
        second \in ResultsDirs(<<"p">>, {<<"r">>}, {File("active", ""), File("Unknown", "")})}

InitReport ==
    /\ pc = "idle"
    /\ config = ShippedCatalog
    /\ metrics = NoMetrics
    /\ determinedPhase = ""
    /\ ScriptIdle
    /\ ShardIdle
    /\ PROJECT_ORG = <<>>
    /\ projectsYaml = [exists |-> FALSE, orgs |-> <<>>]
    /\ enumPc = "done"
    /\ reportPc = "build"
    /\ downloaded \in Downloads
    /\ summary = NoSummary
    /\ issues = <<>>
    /\ clock = 0
    /\ run_attempt = 1

NextReport == BuildMarkdownReport

SpecReport == InitReport /\ [][NextReport]_vars

(***************************************************************************)
(* Specification of the report step on result files of any content: files  *)
(* jq cannot read, and files whose phase is null, absent or empty, next to *)
(* files as the shards write them.                                         *)
(***************************************************************************)
ParseFiles ==
    {NotJson, NoBytes,
     File(JsonNull, ""), File(JsonNull, "Checkout failed"),
     File("", ""), File("", "Checkout failed"),
     File("null", ""),
     File("active", ""), File("Checkout Failed", "Checkout failed")}

ParseDownloads ==
    {ArtifactsDir(<<"o">> :> first @@ <<"p">> :> second) :
        first \in ResultsDirs(<<"o">>, {<<"r">>, <<"s">>}, ParseFiles),
        second \in ResultsDirs(<<"p">>, {<<"r">>}, {File("active", ""), NotJson})}

InitParse ==
    /\ pc = "idle"
    /\ config = ShippedCatalog
    /\ metrics = NoMetrics
    /\ determinedPhase = ""
    /\ ScriptIdle
    /\ ShardIdle
    /\ PROJECT_ORG = <<>>
    /\ projectsYaml = [exists |-> FALSE, orgs |-> <<>>]
    /\ enumPc = "done"
    /\ reportPc = "build"
    /\ downloaded \in ParseDownloads
    /\ summary = NoSummary
    /\ issues = <<>>
    /\ clock = 0
    /\ run_attempt = 1

NextParse == BuildMarkdownReport

SpecParse == InitParse /\ [][NextParse]_vars

(***************************************************************************)
(* Step "Create or update governance issue" (workflow lines 544-599).      *)
(***************************************************************************)
\* line 561
title == "Automated LFN Project Lifecycle Summary"

\* line 569: issues.listForRepo is called once, without per_page and without
\* pagination: it answers the first page, the per_page newest issues
per_page == 30
FirstPage(open) == SubSeq(open, 1, IF Len(open) < per_page THEN Len(open) ELSE per_page)

\* lines 575-595: the first listed issue with the title is updated,
\* otherwise an issue is created; issues are listed newest first
Published(open, body) ==
    LET listed == FirstPage(open)
        matches == {i \in 1..Len(listed) : listed[i].title = title}
    IN  IF matches # {}
        THEN [open EXCEPT ![CHOOSE i \in matches : \A k \in matches : i <= k].body = body]
        ELSE <<[title |-> title, body |-> body]>> \o open

\* the step: without a token, or when a request fails, it reports a failure
\* and leaves the issues as they are (563-566, 596-599)
CreateOrUpdateIssue ==
    /\ reportPc = "publish"
    /\ \E outcome \in {"no token", "request failed", "ok"} :
           issues' = IF outcome = "ok" THEN Published(issues, summary) ELSE issues
    /\ reportPc' = "done"
    /\ UNCHANGED <<PROJECT_ORG, projectsYaml, enumPc, downloaded, summary, clock,
                   run_attempt>>
    /\ UNCHANGED <<classifyVars, scriptVars, shardVars>>

\* the report job of a completed run is run again: it downloads the same
\* artifacts and runs its steps again
RerunPublishReport ==
    /\ reportPc = "done"
    /\ run_attempt < MaxAttempts
    /\ run_attempt' = run_attempt + 1
    /\ reportPc' = "build"
    /\ UNCHANGED <<PROJECT_ORG, projectsYaml, enumPc, downloaded, summary, issues, clock>>
    /\ UNCHANGED <<classifyVars, scriptVars, shardVars>>

\* someone opens another issue with the label (it is the newest)
OtherIssue == [title |-> "Quarterly LFN Project Governance & Lifecycle Review", body |-> NoSummary]

OpenOtherIssue ==
    /\ Len(issues) < MaxIssues
    /\ issues' = <<OtherIssue>> \o issues
    /\ UNCHANGED <<PROJECT_ORG, projectsYaml, enumPc, reportPc, downloaded, summary, clock,
                   run_attempt>>
    /\ UNCHANGED <<classifyVars, scriptVars, shardVars>>

(***************************************************************************)
(* Specification of repeated runs of the report job over the artifacts of  *)
(* one run, with other labelled issues open in the repository.             *)
(***************************************************************************)
RECURSIVE OtherIssues(_)
OtherIssues(n) == IF n = 0 THEN <<>> ELSE <<OtherIssue>> \o OtherIssues(n - 1)

\* the open labelled issues at the start: none, or other issues alone, or
\* other issues that are newer than the summary issue of an earlier run
PublishIssueLists ==
    {OtherIssues(n) \o older : n \in {0, 1, per_page - 1, per_page},
                               older \in {<<>>, <<[title |-> title, body |-> NoSummary]>>}}

PublishDownloads ==
    {NoArtifacts,
     <<"o">> :> (SafeName(Slug(<<"o">>, <<"r">>)) :> File("active", ""))}

InitPublish ==
    /\ pc = "idle"
    /\ config = ShippedCatalog
    /\ metrics = NoMetrics
    /\ determinedPhase = ""
    /\ ScriptIdle
    /\ ShardIdle
    /\ PROJECT_ORG = <<>>
    /\ projectsYaml = [exists |-> FALSE, orgs |-> <<>>]
    /\ enumPc = "done"
    /\ reportPc = "build"
    /\ downloaded \in PublishDownloads
    /\ summary = NoSummary
    /\ issues \in PublishIssueLists
    /\ clock = 0
    /\ run_attempt = 1

NextPublish ==
    \/ BuildMarkdownReport
    \/ CreateOrUpdateIssue
    \/ RerunPublishReport
    \/ OpenOtherIssue

SpecPublish == InitPublish /\ [][NextPublish]_vars

(***************************************************************************)
(* Specification of a workflow run on drawn inputs, configuration and      *)
(* remote answers.                                                         *)
(***************************************************************************)
OrgLists ==
    {<<>>, << <<"o">> >>, << <<"o">>, <<"p">> >>, << <<"o">>, <<"o">> >>,
     << <<>>, <<"p">> >>}

ProjectsYamls ==
    {[exists |-> FALSE, orgs |-> <<>>]} \cup {[exists |-> TRUE, orgs |-> l] : l \in OrgLists}

WorkflowListings ==
    {[ok |-> FALSE, names |-> <<>>], [ok |-> TRUE, names |-> <<>>],
     [ok |-> TRUE, names |-> << <<"r">> >>]}

\* input project_repo: absent, a repository of the organization given, or
\* one of another organization
WorkflowSlugs == {<<>>, Slug(<<"o">>, <<"r">>), Slug(<<"p">>, <<"r">>)}

OpenIssues ==
    {<<>>, <<[title |-> "Quarterly LFN Project Governance & Lifecycle Review", body |-> NoSummary],
             [title |-> title, body |-> NoSummary]>>}

InitWorkflow ==
    /\ pc = "idle"
    /\ config = ShippedCatalog
    /\ metrics = NoMetrics
    /\ determinedPhase = ""
    /\ ScriptIdle
    /\ MODE \in {"review", "induction"}
    /\ PROJECT_ORG \in {<<>>, <<"o">>}
    /\ INDUCTION_REPO_SLUG \in WorkflowSlugs
    /\ projectsYaml \in ProjectsYamls
    /\ remoteRepos \in [Orgs -> WorkflowListings]
    /\ issues \in OpenIssues
    /\ enumPc = "start"
    /\ reportPc = "waiting"
    /\ matrix = <<>>
    /\ shardPc = <<>>
    /\ org_repos = <<>>
    /\ attempted = <<>>
    /\ results_dir = <<>>
    /\ repo_processed_count = <<>>
    /\ repo_error_count = <<>>
    /\ shardExit = <<>>
    /\ stepLog = <<>>
    /\ uploadOutcome = <<>>
    /\ artifacts = NoArtifacts
    /\ downloaded = NoArtifacts
    /\ summary = NoSummary
    /\ clock = 0
    /\ run_attempt = 1

NextWorkflow ==
    \/ BuildOrgMatrix
    \/ \E j \in Jobs : ListRepositories(j)
    \/ \E j \in Jobs : ProcessRepository(j)
    \/ \E j \in Jobs : UploadArtifacts(j)
    \/ DownloadArtifacts
    \/ BuildMarkdownReport
    \/ CreateOrUpdateIssue

SpecWorkflow == InitWorkflow /\ [][NextWorkflow]_vars

\* every job and step of the run other than the report build
RunnerSteps ==
    \/ BuildOrgMatrix
    \/ \E j \in Jobs : ListRepositories(j)
    \/ \E j \in Jobs : ProcessRepository(j)
    \/ \E j \in Jobs : UploadArtifacts(j)
    \/ DownloadArtifacts
    \/ CreateOrUpdateIssue

\* the platform runs every job and step that is ready to run: weak fairness
\* of the runner's steps, and of the report build with its enabling
\* condition written out (the step is enabled exactly when reportPc is
\* "build")
FairSpecWorkflow ==
    /\ SpecWorkflow
    /\ WF_vars(RunnerSteps)
    /\ (<>[](reportPc = "build") => []<><<BuildMarkdownReport>>_vars)

(***************************************************************************)
(* Specification of one shard and the report over repository names of any  *)
(* make: a repository name is letters, digits, '.', '_' and '-' in any     *)
(* order, drawn here over a letter and the hyphen.                         *)
(***************************************************************************)
MaxNameLen == 3    \* longest repository name drawn

IdentityNames == UNION {[1..k -> {"a", "-"}] : k \in 1..MaxNameLen}

InitIdentity ==
    /\ pc = "idle"
    /\ config = ShippedCatalog
    /\ metrics = NoMetrics
    /\ determinedPhase = ""
    /\ ScriptIdle
    /\ MODE = "review"
    /\ PROJECT_ORG = <<>>
    /\ INDUCTION_REPO_SLUG = <<>>
    /\ projectsYaml = [exists |-> TRUE, orgs |-> << <<"o">> >>]
    /\ \E name \in IdentityNames : \E names \in {<<name>>, <<name, <<"b">> >>} :
           remoteRepos = (<<"o">> :> [ok |-> TRUE, names |-> names])
    /\ issues = <<>>
    /\ enumPc = "done"
    /\ reportPc = "waiting"
    /\ matrix = << <<"o">> >>
    /\ shardPc = <<"list">>
    /\ org_repos = << <<>> >>
    /\ attempted = << <<>> >>
    /\ results_dir = <<NoFiles>>
    /\ repo_processed_count = <<0>>
    /\ repo_error_count = <<0>>
    /\ shardExit = <<0>>
    /\ stepLog = << <<>> >>
    /\ uploadOutcome = <<"none">>
    /\ artifacts = NoArtifacts
    /\ downloaded = NoArtifacts
    /\ summary = NoSummary
    /\ clock = 0
    /\ run_attempt = 1

NextIdentity ==
    \/ \E j \in Jobs : ListRepositories(j)
    \/ \E j \in Jobs : ProcessRepository(j)
    \/ \E j \in Jobs : UploadArtifacts(j)
    \/ DownloadArtifacts
    \/ BuildMarkdownReport

SpecIdentity == InitIdentity /\ [][NextIdentity]_vars

(***************************************************************************)
(* Inputs drawn for the classifier: catalogs of at most MaxRules rules     *)
(* over a numeric and a boolean metric, and vectors that hold or lack      *)
(* each of the two metrics.                                                *)
(***************************************************************************)
PhaseNames == <<"spark", "incubation", "active", "stable">>

OptBound == {{}} \cup {{x} : x \in 1..MaxBound}
NumericConstraints == {ObjectConstraint(mn, mx) : mn \in OptBound, mx \in OptBound}
BooleanConstraints == {BooleanConstraint(v) : v \in BOOLEAN}

EntriesFor(key, cs) == {<<>>} \cup {<<[key |-> key, constraint |-> c]>> : c \in cs}
Rules == {a \o b : a \in EntriesFor("contributors", NumericConstraints),
                   b \in EntriesFor("hasRelease", BooleanConstraints)}
Catalogs ==
    UNION {{[i \in 1..n |-> [name |-> PhaseNames[i], rules |-> f[i]]] :
               f \in [1..n -> Rules]} : n \in 0..MaxRules}

NumericValues == {Num(n) : n \in 0..MaxVal} \cup {Infinity}
BooleanValues == {Bool(v) : v \in BOOLEAN}
ValuesOf(key) == IF key = "hasRelease" THEN BooleanValues ELSE NumericValues
Vectors ==
    UNION {{f \in [S -> NumericValues \cup BooleanValues] :
               \A k \in S : f[k] \in ValuesOf(k)} :
           S \in SUBSET {"contributors", "hasRelease"}}

(***************************************************************************)
(* Specification of the classifier alone: the selection block applied to   *)
(* a drawn vector and catalog.                                             *)
(***************************************************************************)
InitClassify ==
    /\ pc = "select"
    /\ config \in Catalogs
    /\ metrics \in Vectors
    /\ determinedPhase = DefaultPhase
    /\ ScriptIdle
    /\ ShardIdle
    /\ ReportIdle

DynamicPhaseSelection ==
    /\ pc = "select"
    /\ determinedPhase' = SelectPhase(config, metrics)
    /\ pc' = "selected"
    /\ UNCHANGED <<config, metrics>>
    /\ UNCHANGED <<scriptVars, shardVars, reportVars>>

NextClassify == DynamicPhaseSelection

SpecClassify == InitClassify /\ [][NextClassify]_vars

(***************************************************************************)
(* What the specification means by "a declared constraint holds", stated   *)
(* on the vector and independent of the selection loop above.              *)
(***************************************************************************)
AtLeast(val, m) == val.t = "infinity" \/ (val.t = "number" /\ val.n >= m)
AtMost(val, m) == val.t = "number" /\ val.n <= m

ConstraintHolds(entry, m) ==
    /\ entry.key \in DOMAIN m
    /\ LET val == m[entry.key]
           c == entry.constraint
       IN  /\ c.kind = "boolean" => val = Bool(c.b)
           /\ \A x \in c.min : AtLeast(val, x)
           /\ \A x \in c.max : AtMost(val, x)

RuleHolds(rules, m) == \A e \in 1..Len(rules) : ConstraintHolds(rules[e], m)

DeclaredKeys(rules) == {rules[e].key : e \in 1..Len(rules)}

Selected == pc = "selected"

\* C1: first match wins - the selected phase is the name of the earliest
\* rule, in catalog order, whose declared constraints all hold.
C1_FirstMatchWins ==
    Selected =>
        \A i \in 1..Len(config) :
            (/\ RuleHolds(config[i].rules, metrics)
             /\ \A j \in 1..(i - 1) : ~RuleHolds(config[j].rules, metrics))
            => determinedPhase = config[i].name

\* two rules hold at once and the earlier one is selected
C1_Witness ==
    /\ Selected
    /\ Len(config) = 2
    /\ RuleHolds(config[1].rules, metrics)
    /\ RuleHolds(config[2].rules, metrics)
    /\ config[1].rules # <<>>
    /\ config[1].rules # config[2].rules
    /\ determinedPhase = config[1].name

\* C2: the sentinel 'Unknown' is returned exactly when no rule of the
\* catalog matches the vector.
C2_UnknownIffNoMatch ==
    Selected =>
        (determinedPhase = "Unknown"
            <=> \A i \in 1..Len(config) : ~RuleHolds(config[i].rules, metrics))

\* a non-empty catalog, every rule of which fails, gives 'Unknown'
C2_Witness ==
    /\ Selected
    /\ Len(config) = 2
    /\ \A i \in 1..2 : ~RuleHolds(config[i].rules, metrics)
    /\ determinedPhase = "Unknown"

\* C3: a rule matches iff every constraint it declares holds, and the
\* fields it does not declare never affect the match.
C3_MatchIsConjunction ==
    Selected =>
        \A i \in 1..Len(config) :
            LET rules == config[i].rules
            IN  /\ IsMatch(rules, metrics) <=> RuleHolds(rules, metrics)
                /\ \A w \in Vectors :
                       (\A k \in DeclaredKeys(rules) : Lookup(w, k) = Lookup(metrics, k))
                       => (IsMatch(rules, w) <=> IsMatch(rules, metrics))

\* a rule with both bounds on one field and a boolean on the other is
\* selected on a vector that satisfies all three
C3_Witness ==
    /\ Selected
    /\ Len(config) >= 1
    /\ Len(config[1].rules) = 2
    /\ config[1].rules[1].constraint.min # {}
    /\ config[1].rules[1].constraint.max # {}
    /\ RuleHolds(config[1].rules, metrics)
    /\ determinedPhase = config[1].name

\* C4: bounds are inclusive - a rule whose numeric constraints are all met
\* with equality is selected (when no earlier rule holds), and a rule with
\* a metric one below its min or one above its max is never selected.
AtBound(entry, m) ==
    /\ entry.constraint.kind = "object"
    /\ entry.constraint.min \cup entry.constraint.max # {}
    /\ Lookup(m, entry.key).t = "number"
    /\ entry.constraint.min \cup entry.constraint.max = {Lookup(m, entry.key).n}

OneOutside(entry, m) ==
    /\ Lookup(m, entry.key).t = "number"
    /\ \/ entry.constraint.min = {Lookup(m, entry.key).n + 1}
       \/ entry.constraint.max = {Lookup(m, entry.key).n - 1}

C4_InclusiveBounds ==
    Selected =>
        \A i \in 1..Len(config) :
            LET rules == config[i].rules
            IN  /\ (/\ rules # <<>>
                    /\ \A e \in 1..Len(rules) : AtBound(rules[e], metrics)
                    /\ \A j \in 1..(i - 1) : ~RuleHolds(config[j].rules, metrics))
                   => determinedPhase = config[i].name
                /\ (\E e \in 1..Len(rules) : OneOutside(rules[e], metrics))
                   => determinedPhase # config[i].name

\* a rule {min: b} on a metric equal to b is selected
C4_Witness ==
    /\ Selected
    /\ Len(config) >= 1
    /\ Len(config[1].rules) = 1
    /\ AtBound(config[1].rules[1], metrics)
    /\ config[1].rules[1].constraint.max = {}
    /\ determinedPhase = config[1].name

\* C5: a declared constraint on a metric the vector lacks makes the rule a
\* non-match, whatever the kind of the constraint.
C5_MissingMetricFails ==
    Selected =>
        \A i \in 1..Len(config) :
            (\E k \in DeclaredKeys(config[i].rules) : k \notin DOMAIN metrics)
            => /\ ~IsMatch(config[i].rules, metrics)
               /\ determinedPhase # config[i].name

\* the only rule requires hasRelease: false, the vector has no hasRelease
C5_Witness ==
    /\ Selected
    /\ Len(config) = 1
    /\ Len(config[1].rules) = 1
    /\ config[1].rules[1].constraint = BooleanConstraint(FALSE)
    /\ "hasRelease" \notin DOMAIN metrics
    /\ determinedPhase = "Unknown"

(***************************************************************************)
(* Claims about one run of index.js (SpecScript).                          *)
(***************************************************************************)
Exited == pc = "exit"

\* the run got past input validation and reached the metadata query
ReachedMetadata ==
    /\ Exited
    /\ ~InvalidRepoInput(inputs.repo)
    /\ inputs.config_path # ""
    /\ inputs.config_path \in fsFiles

InaccessibleWritten ==
    /\ repoJson.exists
    /\ repoJson.phase = "Inaccessible"
    /\ repoJson.repo = inputs.repo
    /\ output = "Inaccessible"
    /\ ~failed
    /\ calls = <<"repos.get">>

C7_ArchivedShortCircuits ==
    (ReachedMetadata /\ api.get.status = 200 /\ api.get.archived) =>
        /\ determinedPhase = "Archive"
        /\ repoJson.exists
        /\ repoJson.phase = "Archive"
        /\ repoJson.repo = inputs.repo
        /\ output = "Archive"
        /\ ~failed
        /\ calls = <<"repos.get">>
        /\ ~selected

\* archived, with a catalog whose first rule matches every vector and
\* sub-queries that would all have succeeded
C7_Witness ==
    /\ ReachedMetadata
    /\ api.get.status = 200
    /\ api.get.archived
    /\ config = CatchAllCatalog
    /\ api.listContributors.ok
    /\ api.listCommits.ok
    /\ api.getLatestRelease.status = 200
    /\ repoJson.phase = "Archive"

\* C8: with metadata fetched and the repository not archived, a failed
\* sub-query gives its metric the documented default, the run still selects
\* a phase and writes the record with the metrics, and it does not fail.
C8_SubQueryFailureDefaults ==
    (ReachedMetadata /\ api.get.status = 200 /\ ~api.get.archived) =>
        /\ ~failed
        /\ selected
        /\ repoJson.exists
        /\ repoJson.hasMetrics
        /\ repoJson.metrics = metrics
        /\ repoJson.phase = determinedPhase
        /\ output = determinedPhase
        /\ determinedPhase \in {config[i].name : i \in 1..Len(config)} \cup {"Unknown"}
        /\ \A i \in 1..Len(config) :
               (/\ RuleHolds(config[i].rules, metrics)
                /\ \A j \in 1..(i - 1) : ~RuleHolds(config[j].rules, metrics))
               => determinedPhase = config[i].name
        /\ metrics["ageYrs"] = Num(api.get.ageYrs)
        /\ metrics["silentDays"] = Num(api.get.silentDays)
        /\ metrics["contributors"] =
               (IF api.listContributors.ok THEN Num(api.listContributors.length) ELSE Num(0))
        /\ metrics["commits90d"] =
               (IF api.listCommits.ok THEN Num(api.listCommits.length) ELSE Num(0))
        /\ api.getLatestRelease.status = 200 =>
               /\ metrics["lastRelDays"] = Num(api.getLatestRelease.days)
               /\ metrics["hasRelease"] = Bool(TRUE)
        /\ api.getLatestRelease.status # 200 =>
               /\ metrics["lastRelDays"] = Infinity
               /\ metrics["hasRelease"] = Bool(FALSE)

\* only the contributors query fails; the run is classified 'active' on the
\* commit count and the last push as they were fetched
C8_Witness ==
    /\ ReachedMetadata
    /\ config = ShippedCatalog
    /\ api.get.status = 200
    /\ ~api.get.archived
    /\ ~api.listContributors.ok
    /\ api.listCommits.ok
    /\ api.getLatestRelease.status = 200
    /\ metrics["contributors"] = Num(0)
    /\ repoJson.phase = "active"
    /\ ~failed


\* C29: when the metadata query succeeded and the repository is not
\* archived, the three sub-queries are all issued, and each metric of a
\* sub-query that succeeded is the value that sub-query returned, whatever
\* the other two answered
C29_SubQueriesIndependent ==
    (Exited /\ ReachedMetadata /\ api.get.status = 200 /\ ~api.get.archived) =>
        /\ calls = <<"repos.get", "listContributors", "listCommits", "getLatestRelease">>
        /\ api.listContributors.ok =>
               metrics["contributors"] = Num(api.listContributors.length)
        /\ api.listCommits.ok => metrics["commits90d"] = Num(api.listCommits.length)
        /\ api.getLatestRelease.status = 200 =>
               /\ metrics["lastRelDays"] = Num(api.getLatestRelease.days)
               /\ metrics["hasRelease"] = Bool(TRUE)

\* the contributors and release queries failed and the commits query
\* answered 20 commits: all were issued and commits90d is 20
C29_Witness ==
    /\ Exited
    /\ ReachedMetadata
    /\ api.get.status = 200
    /\ ~api.get.archived
    /\ ~api.listContributors.ok
    /\ api.getLatestRelease.status = 500
    /\ api.listCommits.ok
    /\ api.listCommits.length = 20
    /\ Len(calls) = 4
    /\ metrics["commits90d"] = Num(20)
    /\ metrics["contributors"] = Num(0)
    /\ metrics["hasRelease"] = Bool(FALSE)

(***************************************************************************)
(* The classify job: records and recovery (SpecShard).                     *)
(***************************************************************************)
\* the "Process Repositories" step of job j has ended
StepEnded(j) == shardPc[j] \in {"exited", "done"}

\* the result records of job j: the files of its results directory
Records(j) == DOMAIN results_dir[j]

\* C9: when a shard has ended, every slug it attempted has its result record
\* in the shard's results, and the shard holds one record per attempted slug
C9_OneRecordPerAttemptedRepo ==
    \A j \in Jobs :
        StepEnded(j) =>
            /\ \A i \in 1..Len(attempted[j]) : SafeName(attempted[j][i]) \in Records(j)
            /\ Cardinality(Records(j)) = Len(attempted[j])

\* C10: a shard that entered its loop attempts every repository of its list
\* and its step ends with status 0, whatever failed for one repository
C10_FailureNeverAbortsShard ==
    \A j \in Jobs :
        (StepEnded(j) /\ org_repos[j] # <<>>) =>
            /\ attempted[j] = org_repos[j]
            /\ shardExit[j] = 0

\* the script failed on the first of two listed repositories: the step ended
\* there, and the slug it had begun has no record
C9_Witness ==
    \E j \in Jobs :
        /\ StepEnded(j)
        /\ Len(org_repos[j]) = 2
        /\ attempted[j] = <<org_repos[j][1]>>
        /\ SafeName(org_repos[j][1]) \notin Records(j)

\* the same failure after a first repository was recorded: the step ended with
\* status 1 on the second
C10_Witness ==
    \E j \in Jobs :
        /\ shardPc[j] = "done"
        /\ Len(org_repos[j]) = 2
        /\ attempted[j] = org_repos[j]
        /\ Records(j) = {SafeName(org_repos[j][1])}
        /\ shardExit[j] = 1
        /\ matrix[j] \in DOMAIN artifacts

\* the record of job j for a slug, once written
RecordOf(j, repo_slug) == results_dir[j][SafeName(repo_slug)]
HasRecord(j, repo_slug) == SafeName(repo_slug) \in Records(j)

\* C11: a repository whose clone failed has a record with phase
\* 'Checkout Failed', is counted as failed, and the script is not run for it
C11_CloneFailureIsCheckoutFailed ==
    \A j \in Jobs : \A i \in 1..Len(stepLog[j]) :
        LET e == stepLog[j][i]
        IN  ~e.cloned =>
                /\ ~e.ran
                /\ e.counted_failed
                /\ HasRecord(j, e.repo_slug)
                /\ RecordOf(j, e.repo_slug).phase = "Checkout Failed"

\* the clone failed, the script was run all the same and its phase recorded,
\* and the repository was not counted as failed
C11_Witness ==
    \E j \in Jobs : \E i \in 1..Len(stepLog[j]) :
        LET e == stepLog[j][i]
        IN  /\ ~e.cloned
            /\ e.ran
            /\ ~e.counted_failed
            /\ HasRecord(j, e.repo_slug)
            /\ RecordOf(j, e.repo_slug).phase = "Inaccessible"
            /\ repo_error_count[j] = 0

\* C12: a repository for which the script exited non-zero, or exited zero
\* without repo.json, has a record with phase 'Classification Error' and is
\* counted as failed
C12_ScriptFailureIsClassificationError ==
    \A j \in Jobs : \A i \in 1..Len(stepLog[j]) :
        LET e == stepLog[j][i]
        IN  (e.ran /\ (e.node_exit # 0 \/ ~e.produced)) =>
                /\ e.counted_failed
                /\ HasRecord(j, e.repo_slug)
                /\ RecordOf(j, e.repo_slug).phase = "Classification Error"

\* the script exited non-zero: no record, no count, and the step has ended
C12_Witness ==
    \E j \in Jobs : \E i \in 1..Len(stepLog[j]) :
        LET e == stepLog[j][i]
        IN  /\ e.ran
            /\ e.node_exit # 0
            /\ ~HasRecord(j, e.repo_slug)
            /\ ~e.counted_failed
            /\ StepEnded(j)
            /\ shardExit[j] # 0

\* job j asked the remote for the organization's repositories (261-286)
Listed(j) ==
    ~(/\ MODE = "induction"
      /\ INDUCTION_REPO_SLUG # <<>>
      /\ StartsWith(INDUCTION_REPO_SLUG, matrix[j] \o <<Slash>>))

\* C14: a listing that succeeds with zero repositories ends the shard with
\* status 0, zero records and no repository attempted
C14_EmptyListingIsNotAnError ==
    \A j \in Jobs :
        (/\ shardPc[j] # "list"
         /\ Listed(j)
         /\ remoteRepos[matrix[j]].ok
         /\ remoteRepos[matrix[j]].names = <<>>) =>
            /\ StepEnded(j)
            /\ shardExit[j] = 0
            /\ Records(j) = {}
            /\ attempted[j] = <<>>
            /\ stepLog[j] = <<>>

\* a review-mode shard of an organization without repositories has finished
\* with status 0 and uploaded nothing
C14_Witness ==
    \E j \in Jobs :
        /\ MODE = "review"
        /\ remoteRepos[matrix[j]].ok
        /\ remoteRepos[matrix[j]].names = <<>>
        /\ shardPc[j] = "done"
        /\ shardExit[j] = 0
        /\ Records(j) = {}
        /\ matrix[j] \notin DOMAIN artifacts

\* the name of a slug carries the marker, spelt 'archived' or 'Archived'
ArchivedMarker(slug) ==
    \/ Contains(Basename(slug), Archived_lower)
    \/ Contains(Basename(slug), Archived_capital)

C15ListingWitness ==
    \E j \in Jobs :
        /\ Listed(j)
        /\ \E i \in 1..Len(remoteRepos[matrix[j]].names) :
               ArchivedMarker(Slug(matrix[j], remoteRepos[matrix[j]].names[i]))
        /\ shardPc[j] = "done"
        /\ Len(attempted[j]) = 1
        /\ Cardinality(Records(j)) = 1

ReportRecords(org) ==
    IF org \notin DOMAIN downloaded THEN {}
    ELSE {[repo |-> n, phase |-> PhaseText[downloaded[org][SafeName(Slug(org, n))].phase]] :
            n \in {m \in ReportRepoNames \cup RepoNames :
                     SafeName(Slug(org, m)) \in DOMAIN downloaded[org]}}

\* the section of an organization in summary.md, and the place of a record's
\* row in it (0 when it has none)
SectionOf(org) ==
    LET found == {i \in 1..Len(summary.sections) : summary.sections[i].project = org}
    IN  IF found = {} THEN <<>> ELSE summary.sections[CHOOSE i \in found : TRUE].rows

RowPlace(org, rec) ==
    LET rows == SectionOf(org)
        row == Sed(Awk(RowLine(org, rec.repo, rec.phase)))
        places == {i \in 1..Len(rows) : rows[i] = row}
    IN  IF places = {} THEN 0 ELSE CHOOSE i \in places : TRUE

\* the phase begins with Error, Unknown, Checkout Failed or Classification Error
ErrorMarked(rec) ==
    \E marker \in {"Error", "Unknown", "Checkout Failed", "Classification Error"} :
        StartsWith(rec.phase, PhaseText[marker])

Built == reportPc = "publish" /\ summary.kind = "report"

\* C19: in an organization's section every row whose phase begins with an
\* error-class marker stands before every row whose phase does not
C19_ErrorRowsFirst ==
    Built =>
        \A org \in DOMAIN downloaded : \A f, g \in ReportRecords(org) :
            /\ RowPlace(org, f) # 0
            /\ (ErrorMarked(f) /\ ~ErrorMarked(g)) => RowPlace(org, f) < RowPlace(org, g)

\* 's' is Unknown and 'r' is stable: the row of 's' is the first of the section
C19_Witness ==
    /\ Built
    /\ <<"o">> \in DOMAIN downloaded
    /\ [repo |-> <<"r">>, phase |-> PhaseText["stable"]] \in ReportRecords(<<"o">>)
    /\ [repo |-> <<"s">>, phase |-> PhaseText["Unknown"]] \in ReportRecords(<<"o">>)
    /\ RowPlace(<<"o">>, [repo |-> <<"s">>, phase |-> PhaseText["Unknown"]]) = 1
    /\ RowPlace(<<"o">>, [repo |-> <<"r">>, phase |-> PhaseText["stable"]]) > 1

\* C20: within a sort class of a section, rows are ordered by phase name
\* first and by repository name second
C20_PhaseThenRepository ==
    Built =>
        \A org \in DOMAIN downloaded : \A f, g \in ReportRecords(org) :
            (/\ ErrorMarked(f) = ErrorMarked(g)
             /\ \/ Compare(f.phase, g.phase) < 0
                \/ Compare(f.phase, g.phase) = 0 /\ Compare(f.repo, g.repo) < 0)
                => RowPlace(org, f) < RowPlace(org, g)

\* 'r' is stable and 's' is active: the row of 'r' stands first although
\* 'active' sorts before 'stable'
C20_Witness ==
    /\ Built
    /\ <<"o">> \in DOMAIN downloaded
    /\ ReportRecords(<<"o">>) = {[repo |-> <<"r">>, phase |-> PhaseText["stable"]],
                                 [repo |-> <<"s">>, phase |-> PhaseText["active"]]}
    /\ RowPlace(<<"o">>, [repo |-> <<"r">>, phase |-> PhaseText["stable"]]) = 1
    /\ RowPlace(<<"o">>, [repo |-> <<"s">>, phase |-> PhaseText["active"]]) = 2

\* the organizations that have a record among the downloaded partitions
ReportedOrgs == {org \in DOMAIN downloaded : ReportRecords(org) # {}}

\* C21: the report has one section per organization that has a record, the
\* sections stand in increasing byte order of the organization's name, and
\* the section of an organization holds one row for each of its records
C21_SectionsGroupedAndOrdered ==
    Built =>
        /\ {summary.sections[i].project : i \in 1..Len(summary.sections)} = ReportedOrgs
        /\ \A i, k \in 1..Len(summary.sections) :
               i < k => Compare(summary.sections[i].project,
                                summary.sections[k].project) < 0
        /\ \A org \in ReportedOrgs :
               /\ Len(SectionOf(org)) = Cardinality(ReportRecords(org))
               /\ \A rec \in ReportRecords(org) : RowPlace(org, rec) # 0

\* both organizations have records: the section of 'o' with two rows
\* stands before that of 'p' with one
C21_Witness ==
    /\ Built
    /\ Len(summary.sections) = 2
    /\ summary.sections[1].project = <<"o">>
    /\ Len(summary.sections[1].rows) = 2
    /\ summary.sections[2].project = <<"p">>
    /\ Len(summary.sections[2].rows) = 1

\* the record was written by the shard with an error marker as its phase
\* (workflow lines 326, 343, 352, 358, 372)
WrittenWithErrorMarker(rec) ==
    \E marker \in {"Checkout Failed", "Classification Error", "Read Error", "Error"} :
        rec.phase = PhaseText[marker]

\* C28: in an organization's section the row of every record written with
\* an error marker stands before the row of every record written without
C28_FailuresAtTop ==
    Built =>
        \A org \in DOMAIN downloaded : \A f, g \in ReportRecords(org) :
            (WrittenWithErrorMarker(f) /\ ~WrittenWithErrorMarker(g))
                => RowPlace(org, f) < RowPlace(org, g)

\* 'r' is active and 's' is a 'Read Error' record: the row of 'r' is the
\* first of the section and that of 's' the second
C28_Witness ==
    /\ Built
    /\ <<"o">> \in DOMAIN downloaded
    /\ ReportRecords(<<"o">>) = {[repo |-> <<"r">>, phase |-> PhaseText["active"]],
                                 [repo |-> <<"s">>, phase |-> PhaseText["Read Error"]]}
    /\ RowPlace(<<"o">>, [repo |-> <<"r">>, phase |-> PhaseText["active"]]) = 1
    /\ RowPlace(<<"o">>, [repo |-> <<"s">>, phase |-> PhaseText["Read Error"]]) = 2

\* a 'Classification Error' record stands before a row of an active
\* repository whose name sorts first
C28ClassificationErrorWitness ==
    /\ Built
    /\ <<"o">> \in DOMAIN downloaded
    /\ ReportRecords(<<"o">>) = {[repo |-> <<"r">>, phase |-> PhaseText["active"]],
                                 [repo |-> <<"s">>, phase |-> PhaseText["Classification Error"]]}
    /\ RowPlace(<<"o">>, [repo |-> <<"s">>, phase |-> PhaseText["Classification Error"]]) = 1

(***************************************************************************)
(* The workflow: shards and the report (SpecWorkflow).                     *)
(***************************************************************************)
\* publish-report has built summary.md
ReportBuilt == reportPc \in {"publish", "done"}

\* the listing call of job j failed
ListingThrew(j) == Listed(j) /\ ~remoteRepos[matrix[j]].ok

\* every record of an organization's partition has its row in the section of
\* that organization
AllRendered(org) ==
    /\ org \in DOMAIN downloaded
    /\ Cardinality(ReportRecords(org)) = Cardinality(DOMAIN downloaded[org])
    /\ \A rec \in ReportRecords(org) : RowPlace(org, rec) # 0

\* C13: once the report is built, a shard whose listing call failed has
\* failed without any result and without a section, while every other shard
\* has completed and the partition it uploaded is rendered in the report
C13_ListingFailureIsolated ==
    ReportBuilt =>
        \A j \in Jobs :
            /\ shardPc[j] = "done"
            /\ ListingThrew(j) =>
                   /\ shardExit[j] # 0
                   /\ Records(j) = {}
                   /\ attempted[j] = <<>>
                   /\ uploadOutcome[j] = "no files"
                   /\ SectionOf(matrix[j]) = <<>>
            /\ uploadOutcome[j] = "uploaded" =>
                   /\ downloaded[matrix[j]] = results_dir[j]
                   /\ AllRendered(matrix[j])

\* the listing of 'o' failed and that of 'p' gave one repository: the report
\* is published with the section of 'p' alone
C13_Witness ==
    /\ reportPc = "done"
    /\ matrix = << <<"o">>, <<"p">> >>
    /\ ListingThrew(1)
    /\ shardExit[1] # 0
    /\ ~ListingThrew(2)
    /\ uploadOutcome[2] = "uploaded"
    /\ Len(summary.sections) = 1
    /\ summary.sections[1].project = <<"p">>
    /\ Len(summary.sections[1].rows) = 1

\* C16: publish-report reads the partitions only when enumeration is over
\* and every shard of the run has terminated; what it reads is what the
\* shards uploaded
C16_AggregatorIsBarrier ==
    reportPc # "waiting" =>
        /\ enumPc # "start"
        /\ \A j \in Jobs : shardPc[j] = "done"
        /\ downloaded = artifacts

\* two shards have terminated, one of them with a failure, and the report
\* job holds the partition that was uploaded
C16_Witness ==
    /\ reportPc = "build"
    /\ Len(matrix) = 2
    /\ \A j \in Jobs : shardPc[j] = "done"
    /\ \E j \in Jobs : shardExit[j] # 0
    /\ \E j \in Jobs : uploadOutcome[j] = "uploaded"
    /\ downloaded # NoArtifacts

\* C17: in every run the report is built and the issue step runs
C17_ReportAlwaysPublished == <>(reportPc = "done" /\ summary.kind # "none")

\* no shard ran because enumeration failed, and a shard failed in another
\* run: in both the issue step has run
C17NoShardWitness == enumPc = "failed" /\ reportPc = "done" /\ summary.kind = "no artifacts"

C17_Witness ==
    /\ reportPc = "done"
    /\ summary.kind # "none"
    /\ \/ C17NoShardWitness
       \/ \E j \in Jobs : shardExit[j] # 0 /\ Len(stepLog[j]) = 1

\* C18: every artifact was uploaded by exactly one shard, the one whose
\* results it holds, and no two shards uploaded under the same organization
C18_OneWriterPerPartition ==
    /\ \A o \in DOMAIN artifacts :
           \E j \in Jobs :
               /\ matrix[j] = o
               /\ uploadOutcome[j] = "uploaded"
               /\ artifacts[o] = results_dir[j]
    /\ \A j, k \in Jobs :
           (j # k /\ uploadOutcome[j] = "uploaded" /\ uploadOutcome[k] = "uploaded")
               => matrix[j] # matrix[k]

\* two shards of two organizations have each uploaded their partition
C18_Witness ==
    /\ matrix = << <<"o">>, <<"p">> >>
    /\ uploadOutcome[1] = "uploaded"
    /\ uploadOutcome[2] = "uploaded"
    /\ DOMAIN artifacts = {<<"o">>, <<"p">>}
    /\ artifacts[<<"o">>] = results_dir[1]
    /\ artifacts[<<"p">>] = results_dir[2]

(***************************************************************************)
(* The report: placeholder documents (SpecWorkflow).                       *)
(***************************************************************************)
\* the result files among the downloaded partitions
DownloadedFiles == FoundFiles(downloaded)

C23ReportWitness ==
    /\ ReportBuilt
    /\ DownloadedFiles # {}
    /\ summary.kind = "report"
    /\ Len(summary.sections[1].rows) = 1

(***************************************************************************)
(* Repeated runs of the report job (SpecPublish).                          *)
(***************************************************************************)
\* C22: building the report a second time over the same downloaded
\* partitions gives the same summary.md
C22_AggregationIdempotent ==
    [][(BuildMarkdownReport /\ run_attempt > 1) => summary' = summary]_vars

\* the second build of a report proper, one second after the first
C22_Witness ==
    /\ run_attempt = 2
    /\ reportPc = "publish"
    /\ summary.kind = "report"
    /\ summary.generated_on = 1
    /\ clock = 1

\* the open labelled issues that have the fixed title
SummaryIssues(open) == {i \in 1..Len(open) : open[i].title = title}

\* C24: the issue step updates the open labelled issue that has the title
\* when there is one and creates an issue only when there is none, so that
\* it leaves at most one such issue
C24_UpdateElseCreate ==
    [][(CreateOrUpdateIssue /\ issues' # issues) =>
           /\ SummaryIssues(issues) # {} =>
                  /\ Len(issues') = Len(issues)
                  /\ \E i \in SummaryIssues(issues) :
                         issues' = [issues EXCEPT ![i].body = summary]
           /\ SummaryIssues(issues) = {} => Len(issues') = Len(issues) + 1
           /\ Cardinality(SummaryIssues(issues')) <= 1]_vars

\* the summary issue of an earlier run is the 31st newest open labelled
\* issue and a second issue with the title has been created
C24_Witness ==
    /\ reportPc = "done"
    /\ Len(issues) = per_page + 2
    /\ SummaryIssues(issues) = {1, per_page + 2}

(***************************************************************************)
(* The modes of a run (SpecWorkflow).                                      *)
(***************************************************************************)
\* C25: in review mode the matrix has one shard per configured organization;
\* in induction mode it has one shard, for the organization given, and with
\* a repository given that shard attempts that repository and no other
C25_ModeSelectsShards ==
    enumPc = "done" =>
        /\ MODE = "review" =>
               /\ Len(matrix) = Len(NonEmptyLines(projectsYaml.orgs))
               /\ \A j \in Jobs : matrix[j] = NonEmptyLines(projectsYaml.orgs)[j]
        /\ MODE = "induction" => matrix = <<PROJECT_ORG>>
        /\ (MODE = "induction" /\ INDUCTION_REPO_SLUG # <<>>) =>
               \A j \in Jobs :
                   shardPc[j] = "done" => attempted[j] = <<INDUCTION_REPO_SLUG>>

\* induction for organization 'o' with repository 'p/r': the shard has
\* ended after attempting 'o/r', which the listing of 'o' gave
C25_Witness ==
    /\ MODE = "induction"
    /\ PROJECT_ORG = <<"o">>
    /\ INDUCTION_REPO_SLUG = Slug(<<"p">>, <<"r">>)
    /\ matrix = << <<"o">> >>
    /\ shardPc[1] = "done"
    /\ attempted[1] = <<Slug(<<"o">>, <<"r">>)>>

\* induction with repository 'o/r': the shard attempted it and no other
C25NarrowedWitness ==
    /\ MODE = "induction"
    /\ INDUCTION_REPO_SLUG = Slug(<<"o">>, <<"r">>)
    /\ matrix = << <<"o">> >>
    /\ shardPc[1] = "done"
    /\ attempted[1] = <<Slug(<<"o">>, <<"r">>)>>

\* review of two organizations: two shards
C25ReviewWitness ==
    /\ MODE = "review"
    /\ enumPc = "done"
    /\ matrix = << <<"o">>, <<"p">> >>

(***************************************************************************)
(* No retry within a shard (SpecShard).                                    *)
(***************************************************************************)
\* no element of the sequence occurs twice
NoRepeat(seq) == \A a, b \in 1..Len(seq) : a # b => seq[a] # seq[b]

\* C26: the loop of a shard has one iteration per attempted repository, no
\* repository has two iterations, whatever the first one's outcome, and
\* the script run of an iteration issues no remote query twice
C26_NothingRetried ==
    \A j \in Jobs :
        /\ Len(stepLog[j]) = Len(attempted[j])
        /\ NoRepeat([a \in 1..Len(stepLog[j]) |-> stepLog[j][a].repo_slug])
        /\ \A a \in 1..Len(stepLog[j]) :
               /\ NoRepeat(stepLog[j][a].queries)
               /\ Len(stepLog[j][a].queries) <= 4

\* the clone of the first repository failed, the script run of the second
\* issued its four queries, one of which failed, and the shard has ended
C26_Witness ==
    \E j \in Jobs :
        /\ shardPc[j] = "done"
        /\ Len(stepLog[j]) = 2
        /\ ~stepLog[j][1].cloned
        /\ stepLog[j][1].repo_slug # stepLog[j][2].repo_slug
        /\ Len(stepLog[j][2].queries) = 4
        /\ stepLog[j][2].node_exit = 0

(***************************************************************************)
(* The outcome of an attempted repository (SpecShard).                     *)
(***************************************************************************)
\* the outcomes that hold of an iteration of job j: an error marker with the
\* repository counted as failed, or a record without error field, not
\* counted as failed
Outcomes(j, e) ==
    IF ~HasRecord(j, e.repo_slug) THEN {}
    ELSE LET rec == RecordOf(j, e.repo_slug)
         IN  {marker \in {"Checkout Failed", "Classification Error", "Read Error"} :
                 rec.phase = marker /\ rec.error # "" /\ e.counted_failed}
             \cup (IF rec.error = "" /\ ~e.counted_failed /\ e.produced
                   THEN {"no error"} ELSE {})

\* C27: when a shard has ended, every repository it attempted has exactly
\* one of the four outcomes
C27_ExactlyOneOutcome ==
    \A j \in Jobs :
        StepEnded(j) =>
            \A i \in 1..Len(stepLog[j]) : Cardinality(Outcomes(j, stepLog[j][i])) = 1

\* the first repository was recorded as 'Archive' without error, and the
\* second, for which the script exited non-zero, has no outcome
C27_Witness ==
    \E j \in Jobs :
        /\ shardPc[j] = "done"
        /\ Len(stepLog[j]) = 2
        /\ Outcomes(j, stepLog[j][1]) = {"no error"}
        /\ RecordOf(j, stepLog[j][1].repo_slug).phase = "Archive"
        /\ stepLog[j][2].node_exit # 0
        /\ Outcomes(j, stepLog[j][2]) = {}

\* outcomes that are reached: an unreadable phase, and the script's
\* sentinel and terminal phases as 'no error'
C27ReadErrorWitness ==
    \E j \in Jobs : \E i \in 1..Len(stepLog[j]) :
        Outcomes(j, stepLog[j][i]) = {"Read Error"}

C27NoErrorWitness ==
    \E j \in Jobs :
        /\ Len(stepLog[j]) = 2
        /\ \A i \in 1..2 : Outcomes(j, stepLog[j][i]) = {"no error"}
        /\ RecordOf(j, stepLog[j][1].repo_slug).phase = "Unknown"
        /\ RecordOf(j, stepLog[j][2].repo_slug).phase = "Inaccessible"

(***************************************************************************)
(* A listing of archived names only (SpecShard).                           *)
(***************************************************************************)
\* the listing of job j succeeded with at least one repository and the
\* name filter removed every one of them
AllFilteredOut(j) ==
    /\ Listed(j)
    /\ remoteRepos[matrix[j]].ok
    /\ remoteRepos[matrix[j]].names # <<>>
    /\ GrepVI(remoteRepos[matrix[j]].names) = <<>>

\* C30: a shard whose listed repositories are all removed by the name filter
\* ends with status 0 and zero records
C30_AllArchivedEndsCleanly ==
    \A j \in Jobs :
        (shardPc[j] # "list" /\ AllFilteredOut(j)) =>
            /\ StepEnded(j)
            /\ shardExit[j] = 0
            /\ Records(j) = {}
            /\ attempted[j] = <<>>

\* the listing gave 'archived' and 'ARCHIVED' alone: the step ended with
\* status 1, without a record
C30_Witness ==
    \E j \in Jobs :
        /\ AllFilteredOut(j)
        /\ Len(remoteRepos[matrix[j]].names) = 2
        /\ shardPc[j] = "done"
        /\ shardExit[j] = 1
        /\ Records(j) = {}
        /\ attempted[j] = <<>>
        /\ uploadOutcome[j] = "no files"


(***************************************************************************)
(* Claims on the ways a run of index.js ends (SpecScript).                 *)
(***************************************************************************)
\* the run wrote repo.json with a phase, set the output to it and did not
\* call setFailed
EndedWithResult ==
    /\ ~failed
    /\ repoJson.exists
    /\ repoJson.phase # ""
    /\ output = repoJson.phase

\* the run called setFailed and wrote no repo.json
EndedInFailure == failed /\ ~repoJson.exists

\* C35: every run of the classification script ends in exactly one of two
\* ways: with one repo.json that holds a phase, the phase output set and no
\* failure signalled, or with failure signalled and no repo.json; never with
\* failure after a result and never with success without one.
C35_ResultXorFailure ==
    /\ pc = "start" => (~failed /\ ~repoJson.exists)
    /\ pc = "exit" => /\ EndedWithResult \/ EndedInFailure
                      /\ ~(EndedWithResult /\ EndedInFailure)
                      /\ ~(failed /\ repoJson.exists)
                      /\ ~(~failed /\ ~repoJson.exists)

\* a run that failed after it had issued a query: the metadata query was
\* answered with an error that is neither 404, 403 nor 401
C35_Witness ==
    /\ pc = "exit"
    /\ EndedInFailure
    /\ calls = <<"repos.get">>
    /\ api.get.status = 500

\* runs that ended with a result: a terminal one and a classified one
C35TerminalWitness ==
    /\ pc = "exit"
    /\ EndedWithResult
    /\ repoJson.phase = "Inaccessible"

C35ClassifiedWitness ==
    /\ pc = "exit"
    /\ EndedWithResult
    /\ selected
    /\ repoJson.phase = "Unknown"

(***************************************************************************)
(* Claims on the inputs of index.js (SpecScript).                          *)
(***************************************************************************)
\* the repo input is missing or holds no '/'
RepoInputUnusable == inputs.repo = <<>> \/ \A i \in DOMAIN inputs.repo : inputs.repo[i] # "/"

\* the config path is missing or names no existing file
ConfigPathUnusable == inputs.config_path = "" \/ inputs.config_path \notin fsFiles

\* C38: if the repo input is missing or holds no '/', or the config path is
\* missing or names no existing file, the script fails before it issues any
\* remote query and writes no repo.json.
C38_BadInputFailsBeforeQueries ==
    (pc = "exit" /\ (RepoInputUnusable \/ ConfigPathUnusable))
        => /\ failed
           /\ calls = <<>>
           /\ ~repoJson.exists

\* a run given a repo input without '/' and a good config path, against a
\* repository that would have answered: failed, no query, no file
C38_Witness ==
    /\ pc = "exit"
    /\ inputs.repo = <<"r">>
    /\ ~ConfigPathUnusable
    /\ api.get.status = 200
    /\ failed
    /\ calls = <<>>
    /\ ~repoJson.exists

\* a run given a good repo input and the path of a file that does not exist
C38ConfigWitness ==
    /\ pc = "exit"
    /\ ~RepoInputUnusable
    /\ inputs.config_path = "missing.yml"
    /\ failed
    /\ calls = <<>>

(***************************************************************************)
(* Claims on runs of index.js under the shipped catalog (SpecScript).      *)
(***************************************************************************)
\* the run had valid inputs and the shipped catalog, and the repository was
\* reachable and not archived: the metrics were collected
CollectedUnderShipped ==
    /\ pc = "exit"
    /\ config = ShippedCatalog
    /\ ~InvalidRepoInput(inputs.repo)
    /\ inputs.config_path \in fsFiles
    /\ api.get.status = 200
    /\ ~api.get.archived

AllSubQueriesFailed ==
    /\ ~api.listContributors.ok
    /\ ~api.listCommits.ok
    /\ api.getLatestRelease.status # 200

\* C36: under the shipped catalog a reachable, non-archived repository whose
\* contributor, commit and release sub-queries all fail is classified
\* 'spark', whatever its age and its days since the last push.
C36_AllDefaultsIsSpark ==
    (CollectedUnderShipped /\ AllSubQueriesFailed)
        => /\ ~failed
           /\ repoJson.exists
           /\ repoJson.phase = "spark"
           /\ output = "spark"

\* an old repository, silent for 181 days, whose three sub-queries failed (the
\* release query with a status other than 404): classified 'spark'
C36_Witness ==
    /\ CollectedUnderShipped
    /\ AllSubQueriesFailed
    /\ api.get.ageYrs = 5
    /\ api.get.silentDays = 181
    /\ api.getLatestRelease.status = 500
    /\ repoJson.phase = "spark"

\* the phases rule matching can select under the shipped catalog
MatchablePhases == {"spark", "incubation", "active", "stable", "maintenance_lts", "Unknown"}

\* C37: under the shipped catalog rule matching never yields the catalog
\* names 'archive' or 'inaccessible': for every vector produced by collection
\* the selected phase is spark, incubation, active, stable, maintenance_lts
\* or 'Unknown', and the terminal outcomes 'Archive' and 'Inaccessible' arise
\* only from the short-circuit before collection.
C37_TerminalNamesNeverMatched ==
    (pc = "exit" /\ config = ShippedCatalog)
        => /\ selected => /\ metrics = CollectMetrics(api)
                          /\ determinedPhase \in MatchablePhases
                          /\ repoJson.phase = determinedPhase
           /\ repoJson.exists => repoJson.phase \notin {"archive", "inaccessible"}
           /\ (repoJson.exists /\ repoJson.phase \in {"Archive", "Inaccessible"})
                  => /\ ~selected
                     /\ metrics = NoMetrics
                     /\ calls = <<"repos.get">>

\* a collected vector that matches none of the five lifecycle phases: the
\* rules of 'archive' and 'inaccessible' are passed over and the phase is
\* 'Unknown'
C37_Witness ==
    /\ CollectedUnderShipped
    /\ selected
    /\ ~IsMatch(ShippedCatalog[1].rules, metrics)
    /\ ~IsMatch(ShippedCatalog[5].rules, metrics)
    /\ ShippedCatalog[7].name = "inaccessible"
    /\ determinedPhase = "Unknown"

\* the two short-circuits reached
C37ArchiveWitness ==
    /\ pc = "exit"
    /\ config = ShippedCatalog
    /\ repoJson.phase = "Archive"
    /\ ~selected

C37InaccessibleWitness ==
    /\ pc = "exit"
    /\ config = ShippedCatalog
    /\ repoJson.phase = "Inaccessible"
    /\ ~selected

\* a JavaScript value that is a finite number
IsFinite(val) == val.t = "number"

\* C39: in every metric vector the collector produces, hasRelease is true
\* exactly when lastRelDays is finite: the two fields are set together, to
\* (finite, true) when the release query succeeded and to (+infinity, false)
\* when it failed.
C39_HasReleaseIffFiniteRelDays ==
    /\ "hasRelease" \in DOMAIN metrics <=> "lastRelDays" \in DOMAIN metrics
    /\ (pc = "exit" /\ selected)
          => /\ "hasRelease" \in DOMAIN metrics
             /\ metrics.hasRelease = Bool(TRUE) <=> IsFinite(metrics.lastRelDays)
             /\ IF api.getLatestRelease.status = 200
                THEN /\ IsFinite(metrics.lastRelDays)
                     /\ metrics.hasRelease = Bool(TRUE)
                ELSE /\ metrics.lastRelDays = Infinity
                     /\ metrics.hasRelease = Bool(FALSE)

\* a vector collected after the release query failed with a status other
\* than 404: (+infinity, false)
C39_Witness ==
    /\ pc = "exit"
    /\ selected
    /\ api.getLatestRelease.status = 500
    /\ metrics.lastRelDays = Infinity
    /\ metrics.hasRelease = Bool(FALSE)

\* a vector collected after the release query succeeded: (finite, true)
C39ReleaseWitness ==
    /\ pc = "exit"
    /\ selected
    /\ api.getLatestRelease.status = 200
    /\ metrics.lastRelDays = Num(731)
    /\ metrics.hasRelease = Bool(TRUE)

(***************************************************************************)
(* Claims on the records of the result store (SpecShard).                  *)
(***************************************************************************)
\* the phases the wrapper writes for a failure, and those of a classification
ErrorMarkers == {"Checkout Failed", "Classification Error", "Read Error", "Error"}
ClassifiedPhases ==
    {ShippedCatalog[i].name : i \in DOMAIN ShippedCatalog}
    \cup {"Unknown", "Archive", "Inaccessible"}

HasErrorField(file) == file.error # ""

\* C32: every record in the store carries either a successful phase or an
\* error marker, never both and never neither: it has an error field exactly
\* when its phase is an error marker, and a record with a classified phase
\* (a catalog phase, 'Unknown', 'Archive', 'Inaccessible') has none.
C32_PhaseXorErrorMarker ==
    \A j \in Jobs : \A n \in DOMAIN results_dir[j] :
        LET file == results_dir[j][n]
        IN  /\ file.phase \in ErrorMarkers \cup ClassifiedPhases
            /\ HasErrorField(file) <=> file.phase \in ErrorMarkers
            /\ file.phase \in ClassifiedPhases => ~HasErrorField(file)

\* a finished shard whose store holds a classified record next to a record
\* that carries an error marker
C32_Witness ==
    \E j \in Jobs :
        /\ shardPc[j] = "done"
        /\ \E n, m \in DOMAIN results_dir[j] :
               /\ results_dir[j][n].phase \in ClassifiedPhases
               /\ ~HasErrorField(results_dir[j][n])
               /\ results_dir[j][m].phase = "Read Error"
               /\ HasErrorField(results_dir[j][m])

(***************************************************************************)
(* Claims on result files the aggregator cannot read a phase from          *)
(* (SpecParse).                                                            *)
(***************************************************************************)
\* the files whose phase the aggregator cannot parse: no JSON, or a phase
\* that is empty or null
PhaseUnparseable(file) ==
    file \in {NotJson, NoBytes} \/ file.phase \in {"", JsonNull}

\* the error text that can be read from a file, "" when there is none
ReadableError(file) == IF file \in {NotJson, NoBytes} THEN "" ELSE file.error

\* the phase column the claim promises for a file
PromisedPhase(file) ==
    IF ~PhaseUnparseable(file) THEN PhaseText[file.phase]
    ELSE IF ReadableError(file) # "" THEN ErrorColon \o ErrorText[ReadableError(file)]
    ELSE UnknownParseError

\* the row of the promised phase stands in the section of the file's project
RenderedAs(a, n, phase) ==
    /\ reportPc = "publish"
    /\ summary.kind = "report"
    /\ LET full == ReplaceDashes(n)
           row == SectionRows(<<RowLine(ProjectOf(full), RepoOf(full), phase)>>)[1]
       IN  \E i \in DOMAIN summary.sections :
               /\ summary.sections[i].project = ProjectOf(full)
               /\ \E k \in DOMAIN summary.sections[i].rows :
                       summary.sections[i].rows[k] = row

\* C31: a result file whose phase cannot be parsed (unreadable JSON, or an
\* empty or null phase) does not stop aggregation: once the build step has
\* run, the file is rendered as a row whose phase is 'Error: <error text>'
\* when an error field can be read and 'Unknown (Parse Error)' otherwise, and
\* every other file is rendered as well.
C31_UnparseableFileRendered ==
    (reportPc # "build" /\ \E a \in DOMAIN downloaded : \E n \in DOMAIN downloaded[a] :
                              PhaseUnparseable(downloaded[a][n]))
        => \A a \in DOMAIN downloaded : \A n \in DOMAIN downloaded[a] :
               RenderedAs(a, n, PromisedPhase(downloaded[a][n]))

\* the build step has ended on a file that is no JSON, next to a readable
\* file of another organization: no summary.md was written
C31_Witness ==
    /\ reportPc = "failed"
    /\ summary = NoSummary
    /\ <<"o">> \in DOMAIN downloaded
    /\ \E n \in DOMAIN downloaded[<<"o">>] : downloaded[<<"o">>][n] = NotJson
    /\ <<"p">> \in DOMAIN downloaded
    /\ \A n \in DOMAIN downloaded[<<"p">>] : downloaded[<<"p">>][n] = File("active", "")

\* a file whose phase is null is rendered with the phase 'Unknown'
C31NullPhaseWitness ==
    /\ reportPc = "publish"
    /\ \E a \in DOMAIN downloaded : \E n \in DOMAIN downloaded[a] :
           /\ downloaded[a][n] = File(JsonNull, "Checkout failed")
           /\ RenderedAs(a, n, PhaseText["Unknown"])

\* the cases the code does handle as the claim says: an empty phase with and
\* without an error field, and a file of no bytes
C31EmptyPhaseWitness ==
    /\ reportPc = "publish"
    /\ \E a \in DOMAIN downloaded : \E n, m \in DOMAIN downloaded[a] :
           /\ downloaded[a][n] = File("", "Checkout failed")
           /\ RenderedAs(a, n, ErrorColon \o ErrorText["Checkout failed"])
           /\ downloaded[a][m] \in {File("", ""), NoBytes}
           /\ RenderedAs(a, m, UnknownParseError)


(***************************************************************************)
(* Claims on the repository identity carried by the result file name       *)
(* (SpecIdentity).                                                         *)
(***************************************************************************)
\* the name part of a slug of organization org
NameOf(org, slug) == SubSeq(slug, Len(org) + 2, Len(slug))

\* the report has, in the section headed org, the row of repository name
ReportHasRow(org, name, phase) ==
    /\ summary.kind = "report"
    /\ \E i \in DOMAIN summary.sections :
           /\ summary.sections[i].project = org
           /\ \E k \in DOMAIN summary.sections[i].rows :
                   summary.sections[i].rows[k] = SectionRows(<<RowLine(org, name, phase)>>)[1]

\* the slugs of job j whose result file was downloaded
Recorded(j) ==
    {attempted[j][i] : i \in {k \in DOMAIN attempted[j] :
        /\ matrix[j] \in DOMAIN downloaded
        /\ SafeName(attempted[j][k]) \in DOMAIN downloaded[matrix[j]]}}

\* C33: round trip of the repository identity: for every slug org/name a
\* shard wrote a result for, the organization and the repository name the
\* aggregator recovers from the file name are the original ones, whatever
\* characters the name contains - the report built from the file has the
\* row of that name in the section of that organization.
C33_IdentityRoundTrip ==
    reportPc = "publish"
        => \A j \in Jobs : \A slug \in Recorded(j) :
               LET full == ReplaceDashes(SafeName(slug))
               IN  /\ ProjectOf(full) = matrix[j]
                   /\ RepoOf(full) = NameOf(matrix[j], slug)
                   /\ ReportHasRow(matrix[j], NameOf(matrix[j], slug),
                                   ReadPhase(downloaded[matrix[j]][SafeName(slug)]))

\* the report is built from the result of o/a-- : its row names the
\* repository 'a/', which is not the repository the shard processed
C33_Witness ==
    /\ reportPc = "publish"
    /\ \E j \in Jobs :
           /\ matrix[j] = <<"o">>
           /\ Slug(<<"o">>, <<"a", "-", "-">>) \in Recorded(j)
           /\ \E phase \in {PhaseText["spark"], PhaseText["Archive"]} :
                   /\ ReportHasRow(<<"o">>, <<"a", Slash>>, phase)
                   /\ ~ReportHasRow(<<"o">>, <<"a", "-", "-">>, phase)

\* names with single hyphens, also at either end, come back unchanged
C33SingleHyphenWitness ==
    /\ reportPc = "publish"
    /\ \E j \in Jobs : \E slug \in Recorded(j) :
           /\ NameOf(matrix[j], slug) \in {<<"-", "a", "-">>, <<"-">>}
           /\ ReportHasRow(matrix[j], NameOf(matrix[j], slug),
                           ReadPhase(downloaded[matrix[j]][SafeName(slug)]))


\* the places of the report, section and row, that hold the given row
RowPlaces(org, name, phase) ==
    {p \in UNION {{<<i, k>> : k \in DOMAIN summary.sections[i].rows} :
                      i \in DOMAIN summary.sections} :
        /\ summary.sections[p[1]].project = org
        /\ summary.sections[p[1]].rows[p[2]] = SectionRows(<<RowLine(org, name, phase)>>)[1]}

\* the phase column of the record a shard wrote for slug
RecordedPhase(j, slug) == ReadPhase(downloaded[matrix[j]][SafeName(slug)])

\* C34: the report is complete and free of duplicates: every result record
\* present in the partitions appears as exactly one row, in the section of
\* the organization whose shard produced it, and every row of the report is
\* the row of some record.
C34_CompleteAndNoDuplicates ==
    (reportPc = "publish" /\ summary.kind = "report")
        => /\ \A j \in Jobs : \A slug \in Recorded(j) :
                  Cardinality(RowPlaces(matrix[j], NameOf(matrix[j], slug),
                                        RecordedPhase(j, slug))) = 1
           /\ \A i \in DOMAIN summary.sections : \A k \in DOMAIN summary.sections[i].rows :
                  \E j \in Jobs : \E slug \in Recorded(j) :
                      <<i, k>> \in RowPlaces(matrix[j], NameOf(matrix[j], slug),
                                             RecordedPhase(j, slug))

\* a report built from the records of o/a-- and o/b: two rows, that of 'b'
\* and one that is the row of neither record
C34_Witness ==
    /\ reportPc = "publish"
    /\ summary.kind = "report"
    /\ \E j \in Jobs :
           /\ Recorded(j) = {Slug(<<"o">>, <<"a", "-", "-">>), Slug(<<"o">>, <<"b">>)}
           /\ Len(summary.sections) = 1
           /\ Len(summary.sections[1].rows) = 2
           /\ Cardinality(RowPlaces(<<"o">>, <<"b">>,
                                    RecordedPhase(j, Slug(<<"o">>, <<"b">>)))) = 1
           /\ RowPlaces(<<"o">>, <<"a", "-", "-">>,
                        RecordedPhase(j, Slug(<<"o">>, <<"a", "-", "-">>))) = {}

=============================================================================
